---- MODULE Spec2Model ----
(***************************************************************************)
(* The canvas interaction engine of the moodboard editor (src/App.tsx,     *)
(* src/components/CanvasItemComp.tsx, src/services/webStorage.ts) as a     *)
(* state machine.  One action per React handler; the React state hooks of  *)
(* App are the variables.  Every handler runs against the state of the     *)
(* latest render.                                                          *)
(*                                                                         *)
(* Numbers are integers.  The viewport scale is held in tenths (scale 1 is *)
(* 10), so the clamps 0.1 and 5 of the source are 1 and 50.  Pointer       *)
(* inputs are drawn so that every division a handler performs is exact     *)
(* (the Exact guards): on those inputs integer arithmetic is the           *)
(* arithmetic of the source.                                               *)
(***************************************************************************)
EXTENDS Integers, Sequences, FiniteSets, TLC

VARIABLES
    state,           \* AppState: items, connections, pan, scale, selectedIds, selectionBox
    dragMode,        \* 'none' | 'pan' | 'move' | 'resize' | 'connect' | 'draw' | 'select'
    toolMode,        \* 'select' | 'hand' | 'pen'
    dragStart,       \* Position | null
    activeItemId,    \* item id | null (NoId)
    movingChildIds,  \* Set<string>
    tempConnection,  \* Position | null
    emojiPicker,     \* {type, targetId} | null
    view,            \* 'home' | 'editor'
    currentProject,  \* project id | null (NoId)
    storage,         \* localStorage: project id -> saved document | Null
    recents,         \* catalog of recent projects: the ids it lists
    aiCall,          \* the pending handleAiGenerate call (its closure) | Null
    recentsFile,     \* Electron main: recents.json, the ProjectMetadata list
    folders,         \* Electron main: paths of the project folders on disk
    ipc,             \* Electron main: handler invocations in flight, per slot
    uuids,           \* Electron main: number of uuidv4() ids handed out
    nextId           \* number of item ids drawn so far (ids are fresh)

vars == <<state, dragMode, toolMode, dragStart, activeItemId, movingChildIds,
          tempConnection, emojiPicker, view, currentProject, storage, recents,
          aiCall, recentsFile, folders, ipc, uuids, nextId>>

gestureVars == <<dragMode, dragStart, activeItemId, movingChildIds, tempConnection>>
mainVars == <<recentsFile, folders, ipc, uuids>>
projectVars == <<view, currentProject, storage, recents, aiCall, mainVars>>

----------------------------------------------------------------------------
(* Bounds of the model *)

MaxItems == 3        \* item ids ever drawn
MaxConns == 2        \* connections held by the document
MaxCoord == 400      \* |x|, |y| of an item origin and of the pan offset
MaxPoints == 3       \* points of one freehand path
MaxCount == 3        \* count of one reaction entry
MaxProjects == 1     \* projects ever created

(* Inputs: pointer positions (screen pixels), buttons, wheel factors *)
Points == {<<0, 0>>, <<100, 100>>, <<200, 200>>, <<400, 100>>}
Buttons == {0, 1}
ZoomFactors == {<<1, 2>>, <<2, 1>>}     \* exp(-deltaY * 0.001) as a ratio
WheelScales == {10, 20}                 \* scales the wheel inputs lead to
AddTypes == {"text", "shape"}           \* toolbar buttons used
Emojis == {"heart", "fire"}

Null == [null |-> TRUE]
NoId == 0

(* slots of the Electron IPC handler invocations that can be in flight *)
Calls == {1, 2}

InnerWidth == 400
InnerHeight == 300
MinSize == 50
MinScale == 1
MaxScale == 50

----------------------------------------------------------------------------
(* Helpers *)

Min(a, b) == IF a < b THEN a ELSE b
Max(a, b) == IF a > b THEN a ELSE b
Abs(a) == IF a < 0 THEN -a ELSE a

Exact(n, d) == n % d = 0

Range(s) == {s[k] : k \in 1..Len(s)}

Includes(s, v) == \E k \in 1..Len(s) : s[k] = v

ItemIds(items) == {items[k].id : k \in 1..Len(items)}

Pos(x, y) == [x |-> x, y |-> y]

InBounds(n) == -MaxCoord <= n /\ n <= MaxCoord

(* (clientX - pan.x) / scale *)
ScreenToWorld(c, p, scale) == ((c - p) * 10) \div scale
WorldExact(c, p, scale) == Exact((c - p) * 10, scale)

(* dx / scale *)
Scaled(d, scale) == (d * 10) \div scale
ScaledExact(d, scale) == Exact(d * 10, scale)

INITIAL_STATE ==
    [items |-> <<>>, connections |-> <<>>, pan |-> Pos(0, 0), scale |-> 10,
     selectedIds |-> <<>>, selectionBox |-> Null]

Event(p, b) == [clientX |-> p[1], clientY |-> p[2], button |-> b]
DownEvents == {Event(p, b) : p \in Points, b \in Buttons}
Events == {Event(p, 0) : p \in Points}

----------------------------------------------------------------------------
Init ==
    /\ state = INITIAL_STATE
    /\ dragMode = "none"
    /\ toolMode = "select"
    /\ dragStart = Null
    /\ activeItemId = NoId
    /\ movingChildIds = {}
    /\ tempConnection = Null
    /\ emojiPicker = Null
    /\ view = "home"
    /\ currentProject = NoId
    /\ storage = [p \in 1..MaxProjects |-> Null]
    /\ recents = {}
    /\ aiCall = Null
    /\ recentsFile = <<>>
    /\ folders = {}
    /\ ipc = [c \in Calls |-> Null]
    /\ uuids = 0
    /\ nextId = 0

----------------------------------------------------------------------------
(* Project management *)

NewProjectId == Cardinality({p \in 1..MaxProjects : storage[p] # Null}) + 1

(* webStorage.saveProject: localStorage.setItem(PROJECT_PREFIX + id,
   JSON.stringify(state)).  The document is made of numbers, strings, arrays,
   plain objects and null, all of which JSON.stringify writes out as they are:
   no field is dropped or reset on the way, selectionBox included. *)
StoredDocument(doc) == doc

SaveToStorage(id, doc) == [storage EXCEPT ![id] = StoredDocument(doc)]

(* handleCreateProject, with webStorage.createProject *)
HandleCreateProject ==
    /\ view = "home"
    /\ NewProjectId <= MaxProjects
    /\ storage' = SaveToStorage(NewProjectId, INITIAL_STATE)
    /\ recents' = recents \cup {NewProjectId}
    /\ currentProject' = NewProjectId
    /\ state' = INITIAL_STATE
    /\ view' = "editor"
    /\ UNCHANGED <<gestureVars, toolMode, emojiPicker, aiCall, mainVars, nextId>>

----------------------------------------------------------------------------
(* Adding and deleting items *)

RECURSIVE MinZ(_)
MinZ(items) ==
    IF Len(items) = 1 THEN items[1].zIndex
    ELSE Min(items[1].zIndex, MinZ(Tail(items)))

RECURSIVE MaxZ(_)
MaxZ(items) ==
    IF Len(items) = 1 THEN items[1].zIndex
    ELSE Max(items[1].zIndex, MaxZ(Tail(items)))

(* addItem: shapes go behind everything, others on top *)
NewZIndex(items, type) ==
    LET minZ == IF Len(items) > 0 THEN MinZ(items) ELSE 0
        maxZ == IF Len(items) > 0 THEN MaxZ(items) ELSE 0
    IN  IF type = "shape" THEN minZ - 1 ELSE maxZ + 1

DefaultWidth(type) == IF type = "shape" \/ type = "image" THEN 200 ELSE 250
DefaultHeight(type) == IF type = "shape" \/ type = "image" THEN 200 ELSE 180

Todo(id, text, completed, urgency) ==
    [id |-> id, text |-> text, completed |-> completed, urgency |-> urgency]

(* the two entries a new to-do list starts with *)
InitialTodos ==
    <<Todo(1, "Define goals", FALSE, "high"),
      Todo(2, "Gather inspiration", FALSE, "low")>>

NewItem(id, type, x, y, w, h, z, points) ==
    [id |-> id, type |-> type, x |-> x, y |-> y, width |-> w, height |-> h,
     zIndex |-> z, reactions |-> <<>>, points |-> points, content |-> "",
     todos |-> IF type = "todo" THEN InitialTodos ELSE <<>>]

(* addItem(type, extras) where extras may override width and height *)
AddItem(type, w, h) ==
    /\ view = "editor"
    /\ nextId < MaxItems
    /\ Exact((InnerWidth \div 2 - state.pan.x) * 10, state.scale)
    /\ Exact((InnerHeight \div 2 - state.pan.y) * 10, state.scale)
    /\ LET centerX == ((InnerWidth \div 2 - state.pan.x) * 10) \div state.scale
           centerY == ((InnerHeight \div 2 - state.pan.y) * 10) \div state.scale
           newItem == NewItem(nextId + 1, type, centerX - 100, centerY - 75, w, h,
                              NewZIndex(state.items, type), <<>>)
       IN  /\ InBounds(newItem.x) /\ InBounds(newItem.y)
           /\ state' = [state EXCEPT !.items = Append(@, newItem),
                                     !.selectedIds = <<newItem.id>>]
    /\ nextId' = nextId + 1
    /\ toolMode' = "select"

(* toolbar buttons Add Text / Add Shape *)
ToolbarAdd(type) ==
    /\ AddItem(type, DefaultWidth(type), DefaultHeight(type))
    /\ UNCHANGED <<gestureVars, projectVars, emojiPicker>>

FilterItems(items, removed) ==
    LET Keep(i) == i.id \notin removed IN SelectSeq(items, Keep)

(* a delete that forgets the connections arriving at a removed item *)
FilterConnectionsFromOnly(conns, removed) ==
    LET Keep(c) == c.fromId \notin removed
    IN  SelectSeq(conns, Keep)

(* connections.filter(c => c.fromId !== id && c.toId !== id), for a set of ids *)
FilterConnections(conns, removed) ==
    LET Keep(c) == c.fromId \notin removed /\ c.toId \notin removed
    IN  SelectSeq(conns, Keep)

(* onDelete prop handed to CanvasItemComp *)
OnDelete(id) ==
    /\ view = "editor"
    /\ id \in ItemIds(state.items)
    /\ state' = [state EXCEPT !.items = FilterItems(@, {id}),
                              !.connections = FilterConnections(@, {id})]
    /\ UNCHANGED <<gestureVars, projectVars, toolMode, emojiPicker, nextId>>

(* handleKeyDown, Delete or Backspace, no input or textarea focused *)
KeyDelete ==
    /\ Len(state.selectedIds) > 0
    /\ state' = [state EXCEPT !.items = FilterItems(@, Range(state.selectedIds)),
                              !.connections = FilterConnections(@, Range(state.selectedIds)),
                              !.selectedIds = <<>>]
    /\ UNCHANGED <<gestureVars, projectVars, toolMode, emojiPicker, nextId>>

(* document.activeElement?.tagName when the key is pressed *)
FocusTags == {"BODY", "INPUT", "TEXTAREA"}

(* a guard that knows inputs only *)
TypingInInput(activeTag) == activeTag = "INPUT"

(* activeTag === 'INPUT' || activeTag === 'TEXTAREA' *)
TypingIn(activeTag) == activeTag \in {"INPUT", "TEXTAREA"}

(* handleKeyDown, Delete or Backspace, with the focused element's tag *)
HandleKeyDown(activeTag) ==
    \/ TypingIn(activeTag) /\ UNCHANGED vars
    \/ ~TypingIn(activeTag) /\ KeyDelete

(* toolbar: Select, Hand *)
SetToolMode(t) ==
    /\ view = "editor"
    /\ t \in {"select", "hand"}
    /\ toolMode # t
    /\ toolMode' = t
    /\ UNCHANGED <<state, gestureVars, projectVars, emojiPicker, nextId>>

(* toolbar: Pen Tool toggle *)
TogglePen ==
    /\ view = "editor"
    /\ toolMode' = IF toolMode = "pen" THEN "select" ELSE "pen"
    /\ state' = [state EXCEPT !.selectedIds = <<>>]
    /\ UNCHANGED <<gestureVars, projectVars, emojiPicker, nextId>>

----------------------------------------------------------------------------
(* Pointer-down *)

(* the pointer is over the item's box, compared in screen space *)
PointerOver(item, e) ==
    /\ (e.clientX - state.pan.x) * 10 >= item.x * state.scale
    /\ (e.clientX - state.pan.x) * 10 <= (item.x + item.width) * state.scale
    /\ (e.clientY - state.pan.y) * 10 >= item.y * state.scale
    /\ (e.clientY - state.pan.y) * 10 <= (item.y + item.height) * state.scale

ItemById(items, id) == items[CHOOSE k \in 1..Len(items) : items[k].id = id]

(* an unselected drawing has pointer-events none *)
TakesPointer(item) == item.type # "drawing" \/ Includes(state.selectedIds, item.id)

OnEmptyCanvas(e) ==
    \A k \in 1..Len(state.items) :
        ~(TakesPointer(state.items[k]) /\ PointerOver(state.items[k], e))

(* handleMouseDown runs on #canvas-bg; a pointer-down outside the picker closes it *)
CanvasDown == view = "editor" /\ emojiPicker' = Null /\ UNCHANGED projectVars

(* handleMouseDown, toolMode === 'pen' *)
DownPen(e) ==
    /\ CanvasDown
    /\ toolMode = "pen"
    /\ nextId < MaxItems
    /\ WorldExact(e.clientX, state.pan.x, state.scale)
    /\ WorldExact(e.clientY, state.pan.y, state.scale)
    /\ LET startX == ScreenToWorld(e.clientX, state.pan.x, state.scale)
           startY == ScreenToWorld(e.clientY, state.pan.y, state.scale)
           newItem == NewItem(nextId + 1, "drawing", startX, startY, 0, 0,
                              Len(state.items) + 1, <<Pos(0, 0)>>)
       IN  /\ InBounds(startX) /\ InBounds(startY)
           /\ dragMode' = "draw"
           /\ activeItemId' = newItem.id
           /\ state' = [state EXCEPT !.items = Append(@, newItem),
                                     !.selectedIds = <<newItem.id>>]
           /\ dragStart' = Pos(startX, startY)
    /\ nextId' = nextId + 1
    /\ UNCHANGED <<movingChildIds, tempConnection, toolMode>>

(* handleMouseDown, toolMode === 'hand' || e.button === 1 *)
DownPan(e) ==
    /\ CanvasDown
    /\ toolMode # "pen"
    /\ toolMode = "hand" \/ e.button = 1
    /\ toolMode = "select" => OnEmptyCanvas(e)
    /\ dragMode' = "pan"
    /\ dragStart' = Pos(e.clientX, e.clientY)
    /\ UNCHANGED <<state, activeItemId, movingChildIds, tempConnection, toolMode, nextId>>

(* handleMouseDown, e.button === 0 *)
DownSelect(e) ==
    /\ CanvasDown
    /\ toolMode = "select"
    /\ e.button = 0
    /\ OnEmptyCanvas(e)
    /\ WorldExact(e.clientX, state.pan.x, state.scale)
    /\ WorldExact(e.clientY, state.pan.y, state.scale)
    /\ LET startPos == Pos(ScreenToWorld(e.clientX, state.pan.x, state.scale),
                           ScreenToWorld(e.clientY, state.pan.y, state.scale))
       IN  /\ dragMode' = "select"
           /\ dragStart' = startPos
           /\ state' = [state EXCEPT !.selectedIds = <<>>,
                                     !.selectionBox = [start |-> startPos, end |-> startPos]]
    /\ UNCHANGED <<activeItemId, movingChildIds, tempConnection, toolMode, nextId>>

(* handleMouseDown *)
HandleMouseDown(e) == DownPen(e) \/ DownPan(e) \/ DownSelect(e)

(* other items whose box lies inside the moved shape's box *)
Children(items, id) ==
    IF \E k \in 1..Len(items) : items[k].id = id /\ items[k].type = "shape"
    THEN LET movedItem == ItemById(items, id)
         IN  {items[k].id : k \in
                {j \in 1..Len(items) :
                    /\ items[j].id # id
                    /\ items[j].x >= movedItem.x
                    /\ items[j].x + items[j].width <= movedItem.x + movedItem.width
                    /\ items[j].y >= movedItem.y
                    /\ items[j].y + items[j].height <= movedItem.y + movedItem.height}}
    ELSE {}

(* items are rendered sorted by zIndex and styled with it: of two overlapping
   items the one with the larger zIndex, or the later one at equal zIndex, is on
   top *)
Above(items, j, k) ==
    \/ items[j].zIndex > items[k].zIndex
    \/ items[j].zIndex = items[k].zIndex /\ j > k

(* the pointer reaches the body of the item: no item on top of it is under
   the pointer *)
Topmost(id, e) ==
    \A j, k \in 1..Len(state.items) :
        (/\ state.items[k].id = id
         /\ j # k
         /\ TakesPointer(state.items[j])
         /\ PointerOver(state.items[j], e)) => ~Above(state.items, j, k)

(* handles CanvasItemComp renders: a drawing has no connection dots, the
   resize handle shows on a selected item only *)
HasHandle(item, type) ==
    \/ type = "move"
    \/ type = "resize" /\ Includes(state.selectedIds, item.id)
    \/ type = "connect" /\ item.type # "drawing"

SelectOnDown(selectedIds, id) ==
    IF Includes(selectedIds, id) THEN selectedIds ELSE <<id>>

(* handleItemMouseDown(e, id, type).  A move starts on the body of the item,
   where the pointer has to reach it; the connection dots and the resize handle
   sit on the border of the item, and the pointer position inside the box
   stands for them. *)
HandleItemMouseDown(e, id, type) ==
    /\ view = "editor"
    /\ toolMode = "select"
    /\ id \in ItemIds(state.items)
    /\ LET item == ItemById(state.items, id)
       IN  TakesPointer(item) /\ PointerOver(item, e) /\ HasHandle(item, type)
    /\ type = "move" => Topmost(id, e)
    /\ activeItemId' = id
    /\ dragStart' = Pos(e.clientX, e.clientY)
    /\ dragMode' = type
    /\ IF type = "connect"
       THEN /\ WorldExact(e.clientX, state.pan.x, state.scale)
            /\ WorldExact(e.clientY, state.pan.y, state.scale)
            /\ tempConnection' = Pos(ScreenToWorld(e.clientX, state.pan.x, state.scale),
                                     ScreenToWorld(e.clientY, state.pan.y, state.scale))
       ELSE UNCHANGED tempConnection
    /\ movingChildIds' = (IF type = "move" THEN Children(state.items, id) ELSE {})
    /\ state' = [state EXCEPT !.selectedIds = SelectOnDown(@, id)]
    /\ UNCHANGED <<projectVars, toolMode, emojiPicker, nextId>>

----------------------------------------------------------------------------
(* Pointer-move *)

(* handleMouseMove runs on the editor container and touches neither tool nor picker *)
CanvasMove == view = "editor" /\ UNCHANGED <<projectVars, toolMode, emojiPicker, nextId>>

RECURSIVE MinOver(_, _, _)
(* newPoints.forEach(p => if (p.c < m) m = p.c), from a starting value *)
MinOver(points, c, m) ==
    IF points = <<>> THEN m
    ELSE MinOver(Tail(points), c, IF Head(points)[c] < m THEN Head(points)[c] ELSE m)

RECURSIVE MaxOver(_, _, _)
MaxOver(points, c, m) ==
    IF points = <<>> THEN m
    ELSE MaxOver(Tail(points), c, IF Head(points)[c] > m THEN Head(points)[c] ELSE m)

(* a || 1 *)
OrOne(a) == IF a = 0 THEN 1 ELSE a

(* a step that re-expresses the points and leaves the origin where it was *)
DrawStepOriginFixed(item, mouseX, mouseY) ==
    LET newPoints == Append(item.points, Pos(mouseX - item.x, mouseY - item.y))
        shiftX == Min(MinOver(newPoints, "x", 0), 0)
        shiftY == Min(MinOver(newPoints, "y", 0), 0)
    IN  [item EXCEPT !.width = OrOne(MaxOver(newPoints, "x", item.width) - shiftX),
                     !.height = OrOne(MaxOver(newPoints, "y", item.height) - shiftY),
                     !.points = [k \in 1..Len(newPoints) |->
                                    Pos(newPoints[k].x - shiftX, newPoints[k].y - shiftY)]]

(* the drawing item after one pointer-move at world position (mouseX, mouseY) *)
DrawStep(item, mouseX, mouseY) ==
    LET newPoint == Pos(mouseX - item.x, mouseY - item.y)
        newPoints == Append(item.points, newPoint)
        minX == MinOver(newPoints, "x", 0)
        minY == MinOver(newPoints, "y", 0)
        maxX == MaxOver(newPoints, "x", item.width)
        maxY == MaxOver(newPoints, "y", item.height)
        shiftX == IF minX < 0 THEN minX ELSE 0
        shiftY == IF minY < 0 THEN minY ELSE 0
        adjustedPoints == [k \in 1..Len(newPoints) |->
                              Pos(newPoints[k].x - shiftX, newPoints[k].y - shiftY)]
    IN  [item EXCEPT !.x = item.x + shiftX,
                     !.y = item.y + shiftY,
                     !.width = OrOne(maxX - minX),
                     !.height = OrOne(maxY - minY),
                     !.points = adjustedPoints]

MoveDraw(e) ==
    /\ CanvasMove
    /\ dragMode = "draw" /\ activeItemId # NoId /\ dragStart # Null
    /\ WorldExact(e.clientX, state.pan.x, state.scale)
    /\ WorldExact(e.clientY, state.pan.y, state.scale)
    /\ LET mouseX == ScreenToWorld(e.clientX, state.pan.x, state.scale)
           mouseY == ScreenToWorld(e.clientY, state.pan.y, state.scale)
           newItems == [k \in 1..Len(state.items) |->
                          IF state.items[k].id # activeItemId
                             \/ state.items[k].type # "drawing"
                          THEN state.items[k]
                          ELSE DrawStep(state.items[k], mouseX, mouseY)]
       IN  /\ \A k \in 1..Len(newItems) :
                 /\ InBounds(newItems[k].x) /\ InBounds(newItems[k].y)
                 /\ Len(newItems[k].points) <= MaxPoints
           /\ state' = [state EXCEPT !.items = newItems]
    /\ UNCHANGED <<gestureVars>>

(* a rubber band that takes every item its rectangle touches *)
SelectedByOverlap(items, box) ==
    LET x1 == Min(box.start.x, box.end.x)
        y1 == Min(box.start.y, box.end.y)
        x2 == Max(box.start.x, box.end.x)
        y2 == Max(box.start.y, box.end.y)
        Touches(i) == /\ i.x <= x2 /\ i.x + i.width >= x1
                      /\ i.y <= y2 /\ i.y + i.height >= y1
        hit == SelectSeq(items, Touches)
    IN  [k \in 1..Len(hit) |-> hit[k].id]

(* ids of the items whose center lies in the normalized box *)
SelectedByBox(items, box) ==
    LET x1 == Min(box.start.x, box.end.x)
        y1 == Min(box.start.y, box.end.y)
        x2 == Max(box.start.x, box.end.x)
        y2 == Max(box.start.y, box.end.y)
        Inside(i) == /\ 2 * i.x + i.width >= 2 * x1
                     /\ 2 * i.x + i.width <= 2 * x2
                     /\ 2 * i.y + i.height >= 2 * y1
                     /\ 2 * i.y + i.height <= 2 * y2
        hit == SelectSeq(items, Inside)
    IN  [k \in 1..Len(hit) |-> hit[k].id]

MoveSelect(e) ==
    /\ CanvasMove
    /\ dragMode = "select" /\ dragStart # Null
    /\ WorldExact(e.clientX, state.pan.x, state.scale)
    /\ WorldExact(e.clientY, state.pan.y, state.scale)
    /\ LET currentPos == Pos(ScreenToWorld(e.clientX, state.pan.x, state.scale),
                             ScreenToWorld(e.clientY, state.pan.y, state.scale))
           box == [start |-> dragStart, end |-> currentPos]
       IN  state' = [state EXCEPT !.selectionBox = box,
                                  !.selectedIds = SelectedByBox(state.items, box)]
    /\ UNCHANGED <<gestureVars>>

(* a pan that converts the pointer delta to world units first *)
MovePanScaled(e) ==
    /\ CanvasMove
    /\ dragMode = "pan" /\ dragStart # Null
    /\ LET dx == Scaled(e.clientX - dragStart.x, state.scale)
           dy == Scaled(e.clientY - dragStart.y, state.scale)
       IN  /\ InBounds(state.pan.x + dx) /\ InBounds(state.pan.y + dy)
           /\ state' = [state EXCEPT !.pan = Pos(@.x + dx, @.y + dy)]
    /\ dragStart' = Pos(e.clientX, e.clientY)
    /\ UNCHANGED <<dragMode, activeItemId, movingChildIds, tempConnection>>

(* handleMouseMove, dragMode === 'pan' *)
MovePan(e) ==
    /\ CanvasMove
    /\ dragMode = "pan" /\ dragStart # Null
    /\ LET dx == e.clientX - dragStart.x
           dy == e.clientY - dragStart.y
       IN  /\ InBounds(state.pan.x + dx) /\ InBounds(state.pan.y + dy)
           /\ state' = [state EXCEPT !.pan = Pos(@.x + dx, @.y + dy)]
    /\ dragStart' = Pos(e.clientX, e.clientY)
    /\ UNCHANGED <<dragMode, activeItemId, movingChildIds, tempConnection>>

(* a move that looks for the items inside the grabbed shape at every step *)
MovedItemsLive(items, active, children, dx, dy) ==
    [k \in 1..Len(items) |->
        IF items[k].id = active \/ items[k].id \in Children(items, active)
        THEN [items[k] EXCEPT !.x = @ + dx, !.y = @ + dy]
        ELSE items[k]]

(* the items after one move step by the world delta (dx, dy) *)
MovedItems(items, active, children, dx, dy) ==
    [k \in 1..Len(items) |->
        IF items[k].id = active \/ items[k].id \in children
        THEN [items[k] EXCEPT !.x = @ + dx, !.y = @ + dy]
        ELSE items[k]]

MoveMove(e) ==
    /\ CanvasMove
    /\ dragMode = "move" /\ dragStart # Null /\ activeItemId # NoId
    /\ ScaledExact(e.clientX - dragStart.x, state.scale)
    /\ ScaledExact(e.clientY - dragStart.y, state.scale)
    /\ LET scaledDx == Scaled(e.clientX - dragStart.x, state.scale)
           scaledDy == Scaled(e.clientY - dragStart.y, state.scale)
           newItems == MovedItems(state.items, activeItemId, movingChildIds,
                                  scaledDx, scaledDy)
       IN  /\ \A k \in 1..Len(newItems) :
                 InBounds(newItems[k].x) /\ InBounds(newItems[k].y)
           /\ state' = [state EXCEPT !.items = newItems]
    /\ dragStart' = Pos(e.clientX, e.clientY)
    /\ UNCHANGED <<dragMode, activeItemId, movingChildIds, tempConnection>>

(* Two pointer-move events of a move drag handled by one and the same
   handleMouseMove closure, React not having rendered in between (the updates
   of a mousemove are not flushed inside the event): both calls read the
   dragStart of the last render, the two functional setState updates apply one
   after the other to the latest items, and the second setDragStart is the one
   that stays. *)
MoveMoveUnrendered(e1, e2) ==
    /\ CanvasMove
    /\ dragMode = "move" /\ dragStart # Null /\ activeItemId # NoId
    /\ ScaledExact(e1.clientX - dragStart.x, state.scale)
    /\ ScaledExact(e1.clientY - dragStart.y, state.scale)
    /\ ScaledExact(e2.clientX - dragStart.x, state.scale)
    /\ ScaledExact(e2.clientY - dragStart.y, state.scale)
    /\ LET first == MovedItems(state.items, activeItemId, movingChildIds,
                               Scaled(e1.clientX - dragStart.x, state.scale),
                               Scaled(e1.clientY - dragStart.y, state.scale))
           second == MovedItems(first, activeItemId, movingChildIds,
                                Scaled(e2.clientX - dragStart.x, state.scale),
                                Scaled(e2.clientY - dragStart.y, state.scale))
       IN  /\ \A k \in 1..Len(second) :
                 InBounds(second[k].x) /\ InBounds(second[k].y)
           /\ state' = [state EXCEPT !.items = second]
    /\ dragStart' = Pos(e2.clientX, e2.clientY)
    /\ UNCHANGED <<dragMode, activeItemId, movingChildIds, tempConnection>>

(* a resize without the floor *)
ResizedNoFloor(size, delta) == size + delta

(* Math.max(50, size + delta) *)
Resized(size, delta) == Max(MinSize, size + delta)

(* a resize that also restarts the stroke of the resized item *)
ResizedItemsRestartingStroke(items, active, dx, dy) ==
    [k \in 1..Len(items) |->
        IF items[k].id = active
        THEN [items[k] EXCEPT !.width = Resized(@, dx), !.height = Resized(@, dy),
                              !.points = <<Pos(0, 0)>>]
        ELSE items[k]]

ResizedItems(items, active, dx, dy) ==
    [k \in 1..Len(items) |->
        IF items[k].id = active
        THEN [items[k] EXCEPT !.width = Resized(@, dx), !.height = Resized(@, dy)]
        ELSE items[k]]

MoveResize(e) ==
    /\ CanvasMove
    /\ dragMode = "resize" /\ dragStart # Null /\ activeItemId # NoId
    /\ ScaledExact(e.clientX - dragStart.x, state.scale)
    /\ ScaledExact(e.clientY - dragStart.y, state.scale)
    /\ LET scaledDx == Scaled(e.clientX - dragStart.x, state.scale)
           scaledDy == Scaled(e.clientY - dragStart.y, state.scale)
           newItems == ResizedItems(state.items, activeItemId, scaledDx, scaledDy)
       IN  /\ \A k \in 1..Len(newItems) :
                 InBounds(newItems[k].width) /\ InBounds(newItems[k].height)
           /\ state' = [state EXCEPT !.items = newItems]
    /\ dragStart' = Pos(e.clientX, e.clientY)
    /\ UNCHANGED <<dragMode, activeItemId, movingChildIds, tempConnection>>

MoveConnect(e) ==
    /\ CanvasMove
    /\ dragMode = "connect" /\ dragStart # Null
    /\ WorldExact(e.clientX, state.pan.x, state.scale)
    /\ WorldExact(e.clientY, state.pan.y, state.scale)
    /\ tempConnection' = Pos(ScreenToWorld(e.clientX, state.pan.x, state.scale),
                             ScreenToWorld(e.clientY, state.pan.y, state.scale))
    /\ UNCHANGED <<state, dragMode, dragStart, activeItemId, movingChildIds>>

(* handleMouseMove *)
HandleMouseMove(e) ==
    \/ MoveDraw(e)
    \/ MoveSelect(e)
    \/ MovePan(e)
    \/ MoveMove(e)
    \/ MoveResize(e)
    \/ MoveConnect(e)

----------------------------------------------------------------------------
(* Pointer-up *)

(* a hit test that every item passes *)
HitAnywhere(item, mouseX, mouseY) == TRUE

Hit(item, mouseX, mouseY) ==
    /\ mouseX >= item.x /\ mouseX <= item.x + item.width
    /\ mouseY >= item.y /\ mouseY <= item.y + item.height

(* a hit test that resolves to the item on top: the largest zIndex, the later
   item at equal zIndex *)
FindTargetTopmost(items, active, mouseX, mouseY) ==
    LET matches == {k \in 1..Len(items) :
                       items[k].id # active /\ Hit(items[k], mouseX, mouseY)}
    IN  IF matches = {} THEN 0
        ELSE CHOOSE k \in matches : \A j \in matches : j # k => Above(items, k, j)

(* a hit test that does not leave out the source item *)
FindTargetAny(items, active, mouseX, mouseY) ==
    LET matches == {k \in 1..Len(items) : Hit(items[k], mouseX, mouseY)}
    IN  IF matches = {} THEN 0
        ELSE CHOOSE k \in matches : \A j \in matches : k <= j

(* state.items.find(item => item.id !== activeItemId && hit): index of the first
   match, 0 when there is none *)
FindTarget(items, active, mouseX, mouseY) ==
    LET matches == {k \in 1..Len(items) :
                       items[k].id # active /\ Hit(items[k], mouseX, mouseY)}
    IN  IF matches = {} THEN 0
        ELSE CHOOSE k \in matches : \A j \in matches : k <= j

(* id: Math.random().toString() is a key no other connection of the document
   has; one more than the largest key in use stands for it.  The colour is not
   modelled. *)
FreshConnectionId(conns) ==
    LET used == {conns[k].id : k \in 1..Len(conns)}
    IN  IF used = {} THEN 1
        ELSE 1 + (CHOOSE m \in used : \A j \in used : j <= m)

NewConnection(conns, fromId, toId) ==
    [id |-> FreshConnectionId(conns), fromId |-> fromId, toId |-> toId]

(* the connections after the pointer-up of a connect drag *)
Committed(conns, items, active, mouseX, mouseY) ==
    LET t == FindTarget(items, active, mouseX, mouseY)
    IN  IF t = 0 THEN conns
        ELSE Append(conns, NewConnection(conns, active, items[t].id))

(* a pointer-up that commits whenever an item is active *)
IsConnectDragAnyMode(mode, active) == active # NoId

(* if (dragMode === 'connect' && activeItemId) *)
IsConnectDrag(mode, active) == mode = "connect" /\ active # NoId

(* handleMouseUp *)
HandleMouseUp(e) ==
    /\ view = "editor"
    /\ IF IsConnectDrag(dragMode, activeItemId)
       THEN /\ WorldExact(e.clientX, state.pan.x, state.scale)
            /\ WorldExact(e.clientY, state.pan.y, state.scale)
            /\ LET mouseX == ScreenToWorld(e.clientX, state.pan.x, state.scale)
                   mouseY == ScreenToWorld(e.clientY, state.pan.y, state.scale)
                   conns == Committed(state.connections, state.items, activeItemId,
                                      mouseX, mouseY)
               IN  /\ Len(conns) <= MaxConns
                   /\ state' = [state EXCEPT !.connections = conns,
                                             !.selectionBox = Null]
       ELSE state' = [state EXCEPT !.selectionBox = Null]
    /\ dragMode' = "none"
    /\ dragStart' = Null
    /\ activeItemId' = NoId
    /\ tempConnection' = Null
    /\ movingChildIds' = {}
    /\ UNCHANGED <<projectVars, toolMode, emojiPicker, nextId>>

----------------------------------------------------------------------------
(* Zoom *)

(* a clamp that lets everything through *)
Unclamped(lo, v, hi) == v

Clamp(lo, v, hi) == Min(Max(lo, v), hi)

(* a zoom about the screen origin *)
ZoomedPanAboutOrigin(mouse, pan, scale, newScale) == (pan * newScale) \div scale

(* mouseX - ((mouseX - state.pan.x) / state.scale) * newScale *)
ZoomedPan(mouse, pan, scale, newScale) ==
    mouse - ((mouse - pan) * newScale) \div scale

(* state.scale * zoomFactor is a whole number of tenths, or falls outside
   the clamp, where the clamp decides alone *)
ZoomExact(scale, f) ==
    \/ Exact(scale * f[1], f[2])
    \/ scale * f[1] < MinScale * f[2]
    \/ scale * f[1] > MaxScale * f[2]

(* handleWheel: zoomFactor = f[1] / f[2] *)
HandleWheel(e, f) ==
    /\ view = "editor"
    /\ ZoomExact(state.scale, f)
    /\ LET newScale == Clamp(MinScale, (state.scale * f[1]) \div f[2], MaxScale)
       IN  /\ Exact((e.clientX - state.pan.x) * newScale, state.scale)
           /\ Exact((e.clientY - state.pan.y) * newScale, state.scale)
           /\ LET newPanX == ZoomedPan(e.clientX, state.pan.x, state.scale, newScale)
                  newPanY == ZoomedPan(e.clientY, state.pan.y, state.scale, newScale)
              IN  /\ InBounds(newPanX) /\ InBounds(newPanY)
                  /\ state' = [state EXCEPT !.scale = newScale,
                                            !.pan = Pos(newPanX, newPanY)]
    /\ UNCHANGED <<gestureVars, projectVars, toolMode, emojiPicker, nextId>>

(* Zoom In button: Math.min(2, p.scale + 0.1) *)
ZoomIn ==
    /\ view = "editor"
    /\ state' = [state EXCEPT !.scale = Min(20, @ + 1)]
    /\ UNCHANGED <<gestureVars, projectVars, toolMode, emojiPicker, nextId>>

(* Zoom Out button: Math.max(0.2, p.scale - 0.1) *)
ZoomOut ==
    /\ view = "editor"
    /\ state' = [state EXCEPT !.scale = Max(2, @ - 1)]
    /\ UNCHANGED <<gestureVars, projectVars, toolMode, emojiPicker, nextId>>

----------------------------------------------------------------------------
(* Emoji picker, stickers and reactions *)

Picker(type, targetId) == [type |-> type, targetId |-> targetId]

(* toolbar: Add Emoji Sticker *)
OpenStickerPicker ==
    /\ view = "editor"
    /\ emojiPicker' = Picker("sticker", NoId)
    /\ UNCHANGED <<state, gestureVars, projectVars, toolMode, nextId>>

(* onAddReaction(id, e): the Add Reaction button of a non-drawing item *)
OnAddReaction(id) ==
    /\ view = "editor"
    /\ id \in ItemIds(state.items)
    /\ ItemById(state.items, id).type # "drawing"
    /\ emojiPicker' = Picker("reaction", id)
    /\ UNCHANGED <<state, gestureVars, projectVars, toolMode, nextId>>

HasReaction(existing, emoji) == \E k \in 1..Len(existing) : existing[k].emoji = emoji

(* an add that never looks for an existing entry *)
AddReactionAlwaysAppends(existing, emoji) ==
    Append(existing, [emoji |-> emoji, count |-> 1])

(* handleEmojiSelect: the reactions of the target item after adding emoji *)
AddReaction(existing, emoji) ==
    IF HasReaction(existing, emoji)
    THEN [k \in 1..Len(existing) |->
             IF existing[k].emoji = emoji
             THEN [existing[k] EXCEPT !.count = @ + 1]
             ELSE existing[k]]
    ELSE Append(existing, [emoji |-> emoji, count |-> 1])

(* a click that decrements down to 0 and keeps the entry *)
RemoveReactionKeepsZero(existing, emoji) ==
    [k \in 1..Len(existing) |->
        IF existing[k].emoji = emoji /\ existing[k].count > 0
        THEN [existing[k] EXCEPT !.count = @ - 1]
        ELSE existing[k]]

(* handleReactionClick: the reactions of the item after one click on emoji *)
RemoveReaction(existing, emoji) ==
    IF ~HasReaction(existing, emoji) THEN existing
    ELSE LET target == existing[CHOOSE k \in 1..Len(existing) :
                                   /\ existing[k].emoji = emoji
                                   /\ \A j \in 1..(k - 1) : existing[j].emoji # emoji]
             Other(r) == r.emoji # emoji
         IN  IF target.count > 1
             THEN [k \in 1..Len(existing) |->
                      IF existing[k].emoji = emoji
                      THEN [existing[k] EXCEPT !.count = @ - 1]
                      ELSE existing[k]]
             ELSE SelectSeq(existing, Other)

(* updateItem(id, {reactions}) *)
WithReactions(items, id, reactions) ==
    [k \in 1..Len(items) |->
        IF items[k].id = id THEN [items[k] EXCEPT !.reactions = reactions]
        ELSE items[k]]

CountOf(existing, emoji) ==
    IF HasReaction(existing, emoji)
    THEN existing[CHOOSE k \in 1..Len(existing) : existing[k].emoji = emoji].count
    ELSE 0

(* handleEmojiSelect(emoji), picker opened by onAddReaction *)
SelectReaction(emoji) ==
    /\ view = "editor"
    /\ emojiPicker # Null
    /\ emojiPicker.type = "reaction" /\ emojiPicker.targetId # NoId
    /\ \A k \in 1..Len(state.items) :
          state.items[k].id = emojiPicker.targetId =>
              CountOf(state.items[k].reactions, emoji) < MaxCount
    /\ state' = [state EXCEPT !.items =
                    [k \in 1..Len(state.items) |->
                        IF state.items[k].id = emojiPicker.targetId
                        THEN [state.items[k] EXCEPT !.reactions =
                                 AddReaction(state.items[k].reactions, emoji)]
                        ELSE state.items[k]]]
    /\ emojiPicker' = Null
    /\ UNCHANGED <<gestureVars, projectVars, toolMode, nextId>>

(* handleEmojiSelect(emoji), picker opened by the sticker button *)
SelectSticker(emoji) ==
    /\ view = "editor"
    /\ emojiPicker # Null
    /\ emojiPicker.type = "sticker"
    /\ AddItem("text", 100, 100)
    /\ emojiPicker' = Null
    /\ UNCHANGED <<gestureVars, projectVars>>

HandleEmojiSelect(emoji) == SelectReaction(emoji) \/ SelectSticker(emoji)

(* handleReactionClick(emoji) on a reaction badge of item id *)
HandleReactionClick(id, emoji) ==
    /\ view = "editor"
    /\ id \in ItemIds(state.items)
    /\ HasReaction(ItemById(state.items, id).reactions, emoji)
    /\ state' = [state EXCEPT !.items =
                    WithReactions(@, id,
                        RemoveReaction(ItemById(@, id).reactions, emoji))]
    /\ UNCHANGED <<gestureVars, projectVars, toolMode, emojiPicker, nextId>>

(* To-do lists (CanvasItemComp of a todo item) *)

MaxTodos == 3        \* entries of one to-do list

(* updateItem(id, { todos }) *)
WithTodos(items, id, todos) ==
    [k \in 1..Len(items) |->
        IF items[k].id = id THEN [items[k] EXCEPT !.todos = todos] ELSE items[k]]

TodoIds(todos) == {todos[k].id : k \in 1..Len(todos)}

(* const order: Urgency[] = ['low', 'medium', 'high'] *)
UrgencyOrder == <<"low", "medium", "high">>

(* order.indexOf(u), counted from 0, -1 when absent *)
IndexOf(order, u) ==
    IF \E k \in 1..Len(order) : order[k] = u
    THEN (CHOOSE k \in 1..Len(order) : order[k] = u) - 1
    ELSE -1

(* an urgency that stops at the last one *)
NextUrgencyCapped(u) ==
    UrgencyOrder[Min(IndexOf(UrgencyOrder, u) + 1, Len(UrgencyOrder) - 1) + 1]

(* order[(order.indexOf(t.urgency) + 1) % order.length] *)
NextUrgency(u) ==
    UrgencyOrder[((IndexOf(UrgencyOrder, u) + 1) % Len(UrgencyOrder)) + 1]

TodoAction(id) ==
    /\ view = "editor"
    /\ id \in ItemIds(state.items)
    /\ ItemById(state.items, id).type = "todo"
    /\ UNCHANGED <<gestureVars, projectVars, toolMode, emojiPicker, nextId>>

(* handleTodoToggle(todoId) of item id *)
HandleTodoToggle(id, todoId) ==
    /\ TodoAction(id)
    /\ LET todos == ItemById(state.items, id).todos
       IN  /\ todoId \in TodoIds(todos)
           /\ state' = [state EXCEPT !.items = WithTodos(@, id,
                  [k \in 1..Len(todos) |->
                      IF todos[k].id = todoId
                      THEN [todos[k] EXCEPT !.completed = ~@]
                      ELSE todos[k]])]

(* handleUrgencyToggle(todoId) of item id *)
HandleUrgencyToggle(id, todoId) ==
    /\ TodoAction(id)
    /\ LET todos == ItemById(state.items, id).todos
       IN  /\ todoId \in TodoIds(todos)
           /\ state' = [state EXCEPT !.items = WithTodos(@, id,
                  [k \in 1..Len(todos) |->
                      IF todos[k].id = todoId
                      THEN [todos[k] EXCEPT !.urgency = NextUrgency(@)]
                      ELSE todos[k]])]

(* handleAddTodo of item id; Date.now() gives an id no entry has *)
HandleAddTodo(id) ==
    /\ TodoAction(id)
    /\ LET todos == ItemById(state.items, id).todos
           newTodo == Todo(Len(todos) + 1, "New Task", FALSE, "low")
       IN  /\ Len(todos) < MaxTodos
           /\ state' = [state EXCEPT !.items = WithTodos(@, id, Append(todos, newTodo))]

(* AI generation: the request and the insertion of its answer, one step *)

MaxIdeas == 2        \* ideas in one answer of generateIdeas

(* Math.random() * 400 - 200 *)
AiOffsets == {-200, 0}

(* ideas.map((idea, idx) => ...), idx counted from 0 *)
IdeaItem(idx, off) ==
    LET centerX == ((InnerWidth \div 2 - state.pan.x) * 10) \div state.scale
        centerY == ((InnerHeight \div 2 - state.pan.y) * 10) \div state.scale
    IN  NewItem(nextId + idx + 1, "text", centerX + off[1], centerY + off[2],
                200, 150, Len(state.items) + idx + 1, <<>>)

(* handleAiGenerate, the prompt asks for ideas *)
AiIdeas(n, offs) ==
    /\ view = "editor"
    /\ nextId + n <= MaxItems
    /\ Exact((InnerWidth \div 2 - state.pan.x) * 10, state.scale)
    /\ Exact((InnerHeight \div 2 - state.pan.y) * 10, state.scale)
    /\ LET newItems == [k \in 1..n |-> IdeaItem(k - 1, offs[k])]
       IN  /\ \A k \in 1..n : InBounds(newItems[k].x) /\ InBounds(newItems[k].y)
           /\ state' = [state EXCEPT !.items = @ \o newItems]
    /\ nextId' = nextId + n
    /\ UNCHANGED <<gestureVars, projectVars, toolMode, emojiPicker>>

(* handleAiGenerate, the prompt asks for an image and one comes back *)
AiImage ==
    /\ AddItem("image", DefaultWidth("image"), DefaultHeight("image"))
    /\ UNCHANGED <<gestureVars, projectVars, emojiPicker>>

HandleAiGenerate ==
    \/ AiImage
    \/ \E n \in 0..MaxIdeas : \E offs \in [1..n -> AiOffsets \X AiOffsets] :
          AiIdeas(n, offs)

----------------------------------------------------------------------------
(* Saving and opening *)

(* handleSaveProject: save button, Ctrl/Cmd+S *)
HandleSaveProject ==
    /\ currentProject # NoId
    /\ storage' = SaveToStorage(currentProject, state)
    /\ UNCHANGED <<state, gestureVars, view, currentProject, recents, toolMode,
                   emojiPicker, aiCall, mainVars, nextId>>

(* handleExportProject: saves first; the export leaves the editor as it is *)
HandleExportProject ==
    /\ view = "editor"
    /\ currentProject # NoId
    /\ storage' = SaveToStorage(currentProject, state)
    /\ UNCHANGED <<state, gestureVars, view, currentProject, recents, toolMode,
                   emojiPicker, aiCall, mainVars, nextId>>

(* toolbar: Home *)
GoHome ==
    /\ view = "editor"
    /\ view' = "home"
    /\ UNCHANGED <<state, gestureVars, currentProject, storage, recents, toolMode,
                   emojiPicker, aiCall, mainVars, nextId>>

(* webStorage.loadProject: JSON.parse of the stored document *)
LoadedDocument(id) == storage[id]

(* a rejected promise of the persistence collaborator *)
Thrown == [thrown |-> TRUE]

(* window.moodboard present or not *)
Providers == {"web", "electron"}

(* the name given when the project was created *)
ProjectName == "Project"

Metadata(id, name) == [id |-> id, name |-> name]

(* a loader that hands out a blank document for a missing one *)
LoadProjectBlank(provider, id) ==
    [state |-> IF storage[id] = Null THEN INITIAL_STATE ELSE LoadedDocument(id),
     metadata |-> Metadata(id, ProjectName)]

(* webStorage.loadProject(id) and the project:load handler; storage stands
   for the localStorage keys or the project folders, recents for the recents
   key or recents.json *)
LoadProject(provider, id) ==
    IF provider = "web"
    THEN IF storage[id] = Null THEN Thrown
         ELSE [state |-> LoadedDocument(id),
               metadata |-> IF id \in recents THEN Metadata(id, ProjectName)
                            ELSE Metadata(id, "Recovered Project")]
    ELSE IF id \notin recents THEN Thrown
         ELSE IF storage[id] = Null THEN Thrown
         ELSE [state |-> LoadedDocument(id), metadata |-> Metadata(id, ProjectName)]

(* handleOpenProject(id): try the load; the catch block alerts and logs *)
OpenProject(provider, id) ==
    /\ view = "home"
    /\ LET result == LoadProject(provider, id)
       IN  IF result = Thrown
           THEN UNCHANGED <<currentProject, state, view>>
           ELSE /\ currentProject' = result.metadata.id
                /\ state' = result.state
                /\ view' = "editor"
    /\ UNCHANGED <<gestureVars, storage, recents, toolMode, emojiPicker, aiCall, mainVars, nextId>>

(* handleOpenProject(id) in the browser *)
HandleOpenProject(id) == OpenProject("web", id)

(* the catalog loses an entry: the recents key is cleared, or recents.json
   is cut to its newest 50 entries *)
CatalogEntryLost(id) ==
    /\ id \in recents
    /\ recents' = recents \ {id}
    /\ UNCHANGED <<state, gestureVars, view, currentProject, storage, toolMode,
                   emojiPicker, aiCall, mainVars, nextId>>

(* a stored document is lost: its localStorage key or its folder is removed *)
DocumentLost(id) ==
    /\ storage[id] # Null
    /\ storage' = [storage EXCEPT ![id] = Null]
    /\ UNCHANGED <<state, gestureVars, view, currentProject, recents, toolMode,
                   emojiPicker, aiCall, mainVars, nextId>>

----------------------------------------------------------------------------
(* AI generation of ideas, as the two steps around its await *)

(* the request to the model failed: no answer, no key, no network *)
Failed == [failed |-> TRUE]

(* the list generateIdeas falls back to *)
FallbackIdeas == <<"Inspiration", "Creativity", "Focus", "Design", "Light">>

(* an answer of the model that parses to a list of strings *)
Answer(ideas) == [ideas |-> ideas]

(* a generateIdeas that lets the failure through *)
GenerateIdeasRaising(answer) == IF answer = Failed THEN Thrown ELSE answer

(* generateIdeas(prompt): the parsed answer, or the fallback list from the
   catch block *)
GenerateIdeas(answer) == IF answer = Failed THEN Answer(FallbackIdeas) ELSE answer

isAiLoading == aiCall # Null

(* handleAiGenerate up to await generateIdeas(aiPrompt): the rest of the call
   keeps the state of the render it was started from; one call at a time *)
AiIdeasRequest ==
    /\ view = "editor"
    /\ ~isAiLoading
    /\ aiCall' = [items |-> Len(state.items), pan |-> state.pan, scale |-> state.scale]
    /\ UNCHANGED <<state, gestureVars, view, currentProject, storage, recents,
                   mainVars, toolMode, emojiPicker, nextId>>

(* handleAiGenerate from the await on, finally block included *)
AiIdeasAnswer(answer, offs) ==
    /\ isAiLoading
    /\ Exact((InnerWidth \div 2 - aiCall.pan.x) * 10, aiCall.scale)
    /\ Exact((InnerHeight \div 2 - aiCall.pan.y) * 10, aiCall.scale)
    /\ LET result == GenerateIdeas(answer)
           ideas == IF result = Thrown THEN <<>> ELSE result.ideas
           centerX == ((InnerWidth \div 2 - aiCall.pan.x) * 10) \div aiCall.scale
           centerY == ((InnerHeight \div 2 - aiCall.pan.y) * 10) \div aiCall.scale
           n == Len(ideas)
           newItems == [k \in 1..n |->
               [NewItem(nextId + k, "text", centerX + offs[k][1], centerY + offs[k][2],
                        200, 150, aiCall.items + k, <<>>)
                   EXCEPT !.content = ideas[k]]]
       IN  /\ DOMAIN offs = 1..n
           /\ \A k \in 1..n : InBounds(newItems[k].x) /\ InBounds(newItems[k].y)
           /\ state' = [state EXCEPT !.items = @ \o newItems]
           /\ nextId' = nextId + n
    /\ aiCall' = Null
    /\ UNCHANGED <<gestureVars, view, currentProject, storage, recents, mainVars,
                   toolMode, emojiPicker>>

----------------------------------------------------------------------------
(* Spec: the document under add, delete, rubber-band selection and connect   *)
(* gestures, in one project that is created once.  The items are text notes  *)
(* and stay where addItem puts them: the pointer is over them at (200, 200)  *)
(* and over empty canvas at (400, 100).                                      *)

DocEvents == {Event(<<200, 200>>, 0), Event(<<400, 100>>, 0)}

Next ==
    \/ HandleCreateProject
    \/ ToolbarAdd("text")
    \/ \E id \in 1..MaxItems : OnDelete(id)
    \/ KeyDelete
    \/ \E e \in DocEvents : DownSelect(e)
    \/ \E e \in DocEvents, id \in 1..MaxItems : HandleItemMouseDown(e, id, "connect")
    \/ \E e \in DocEvents : MoveSelect(e)
    \/ \E e \in DocEvents : MoveConnect(e)
    \/ \E e \in DocEvents : HandleMouseUp(e)

Spec == Init /\ [][Next]_vars

(* C1: deleting item X, by onDelete or by keyboard delete-selection with X
   selected, removes X and every connection whose fromId or toId is X, and
   keeps, in order, every other item and every connection that touches no
   deleted item. *)
DeletedExactly(removed) ==
    LET KeepItem(i) == i.id \notin removed
        Untouched(c) == c.fromId \notin removed /\ c.toId \notin removed
    IN  /\ ItemIds(state'.items) \cap removed = {}
        /\ state'.items = SelectSeq(state.items, KeepItem)
        /\ \A k \in 1..Len(state'.connections) : Untouched(state'.connections[k])
        /\ state'.connections = SelectSeq(state.connections, Untouched)

CascadeDelete ==
    [][/\ \A id \in 1..MaxItems : OnDelete(id) => DeletedExactly({id})
       /\ KeyDelete => DeletedExactly(Range(state.selectedIds))]_vars

(* three items were added and one is gone; the connection that was made first
   is gone with it, and the one made second, between the two items that
   remain, is still there *)
CascadeDeleteWitness ==
    /\ nextId = 3
    /\ Len(state.items) = 2
    /\ Len(state.connections) = 1
    /\ state.connections[1].id = 2
    /\ state.connections[1].fromId \in ItemIds(state.items)
    /\ state.connections[1].toId \in ItemIds(state.items)

(* C2: in every reachable state, both ends of every connection are items of
   the document. *)
NoDanglingConnection ==
    \A k \in 1..Len(state.connections) :
        /\ state.connections[k].fromId \in ItemIds(state.items)
        /\ state.connections[k].toId \in ItemIds(state.items)

----------------------------------------------------------------------------
(* SpecReactions: reactions added through the picker and removed by clicking *)
(* their badges, on the items of one project.                                *)

ReactItems == 2

NextReactions ==
    \/ HandleCreateProject
    \/ nextId < ReactItems /\ ToolbarAdd("text")
    \/ \E id \in 1..ReactItems : OnAddReaction(id)
    \/ \E emoji \in Emojis : SelectReaction(emoji)
    \/ \E id \in 1..ReactItems, emoji \in Emojis : HandleReactionClick(id, emoji)

SpecReactions == Init /\ [][NextReactions]_vars

RECURSIVE AddTimes(_, _, _)
AddTimes(reactions, emoji, n) ==
    IF n = 0 THEN reactions
    ELSE AddTimes(AddReaction(reactions, emoji), emoji, n - 1)

RECURSIVE RemoveTimes(_, _, _)
RemoveTimes(reactions, emoji, n) ==
    IF n = 0 THEN reactions
    ELSE RemoveTimes(RemoveReaction(reactions, emoji), emoji, n - 1)

OtherReactions(reactions, emoji) ==
    LET Other(r) == r.emoji # emoji IN SelectSeq(reactions, Other)

EntriesFor(reactions, emoji) ==
    {k \in 1..Len(reactions) : reactions[k].emoji = emoji}

(* C5: for the reactions of every item of every reachable document and every
   emoji the item has no reaction for, adding the emoji n times (1 <= n <=
   MaxCount) gives exactly one entry for it, with count n; removing it n times
   after that leaves no entry for it; and after every single add and remove on
   the way the entries of the other emojis are the ones the item started
   with. *)
ReactionCounting ==
    \A i \in 1..Len(state.items) : \A emoji \in Emojis : \A n \in 1..MaxCount :
        LET start == state.items[i].reactions
            added == AddTimes(start, emoji, n)
        IN  ~HasReaction(start, emoji) =>
                /\ Cardinality(EntriesFor(added, emoji)) = 1
                /\ \A k \in EntriesFor(added, emoji) : added[k].count = n
                /\ EntriesFor(RemoveTimes(added, emoji, n), emoji) = {}
                /\ \A m \in 0..n :
                      /\ OtherReactions(AddTimes(start, emoji, m), emoji) = start
                      /\ OtherReactions(RemoveTimes(added, emoji, m), emoji) = start

(* an item that got the same emoji MaxCount times next to an entry of another
   emoji, and an item from which every reaction has been removed or that never
   had one *)
ReactionCountingWitness ==
    /\ Len(state.items) = 2
    /\ \E i \in 1..2 : \E k \in 1..Len(state.items[i].reactions) :
          /\ Len(state.items[i].reactions) = 2
          /\ state.items[i].reactions[k].count = MaxCount
    /\ \E i \in 1..2 : state.items[i].reactions = <<>>

(* C6: every reaction entry of every item has a count of at least 1. *)
ReactionCountPositive ==
    \A i \in 1..Len(state.items) : \A k \in 1..Len(state.items[i].reactions) :
        state.items[i].reactions[k].count >= 1

(* an entry at count 1, where one more click takes it away, next to an entry
   that was clicked up to MaxCount, and no picker open *)
ReactionCountPositiveWitness ==
    /\ emojiPicker = Null
    /\ \E i \in 1..Len(state.items) :
          \E k, j \in 1..Len(state.items[i].reactions) :
              /\ state.items[i].reactions[k].count = 1
              /\ state.items[i].reactions[j].count = MaxCount

----------------------------------------------------------------------------
(* SpecMove: a shape and stickers, moved about by dragging their bodies.  All *)
(* pointer positions are on one horizontal line: (200, 100) is on the        *)
(* stickers as addItem places them, (250, 100) on the shape beside them,     *)
(* (400, 100) beyond both.                                                   *)

MoveItems == 3

MoveEvents == {Event(<<200, 100>>, 0), Event(<<250, 100>>, 0), Event(<<400, 100>>, 0)}

NextMove ==
    \/ HandleCreateProject
    \/ nextId < MoveItems /\ ToolbarAdd("shape")
    \/ nextId < MoveItems /\ OpenStickerPicker
    \/ \E emoji \in Emojis : nextId < MoveItems /\ SelectSticker(emoji)
    \/ \E e \in MoveEvents, id \in 1..MoveItems :
          dragMode = "none" /\ HandleItemMouseDown(e, id, "move")
    \/ \E e \in MoveEvents : MoveMove(e)
    \/ \E e \in MoveEvents : HandleMouseUp(e)

SpecMove == Init /\ [][NextMove]_vars

(* the ids of the other items whose box lies inside the box of item id *)
InsideOf(items, id) ==
    {items[j].id : j \in
        {j \in 1..Len(items) : \E k \in 1..Len(items) :
            /\ items[k].id = id /\ j # k
            /\ items[j].x >= items[k].x
            /\ items[j].y >= items[k].y
            /\ items[j].x + items[j].width <= items[k].x + items[k].width
            /\ items[j].y + items[j].height <= items[k].y + items[k].height}}

IsShape(items, id) == \E k \in 1..Len(items) : items[k].id = id /\ items[k].type = "shape"

(* C3: a pointer-down that starts a move on a shape records exactly the other
   items lying inside the shape at that moment, and on a non-shape item records
   none; the record changes at no pointer-move; and every pointer-move step of
   the move gesture shifts the grabbed item and the recorded items by one and
   the same delta and leaves every other item as it is, selected or not,
   inside the shape by now or not. *)
ChildrenMove ==
    [][/\ \A e \in MoveEvents, id \in 1..MoveItems :
             HandleItemMouseDown(e, id, "move") =>
                 /\ activeItemId' = id
                 /\ movingChildIds' =
                        (IF IsShape(state.items, id) THEN InsideOf(state.items, id) ELSE {})
       /\ \A e \in MoveEvents :
             MoveMove(e) =>
                 LET dx == ((e.clientX - dragStart.x) * 10) \div state.scale
                     dy == ((e.clientY - dragStart.y) * 10) \div state.scale
                 IN  /\ movingChildIds' = movingChildIds
                     /\ activeItemId' = activeItemId
                     /\ Len(state'.items) = Len(state.items)
                     /\ \A k \in 1..Len(state.items) :
                           LET before == state.items[k]
                               after == state'.items[k]
                           IN  IF before.id = activeItemId \/ before.id \in movingChildIds
                               THEN after = [before EXCEPT !.x = before.x + dx,
                                                           !.y = before.y + dy]
                               ELSE after = before]_vars

(* in the middle of a move of the only shape: the shape has left the place
   addItem gave it, one sticker was inside it at pointer-down and has come
   along, and another sticker, dragged away earlier and outside the shape at
   pointer-down, lies inside the shape now *)
ChildrenMoveWitness ==
    /\ dragMode = "move"
    /\ IsShape(state.items, activeItemId)
    /\ \A k \in 1..Len(state.items) :
          state.items[k].type = "shape" => state.items[k].id = activeItemId
    /\ ItemById(state.items, activeItemId).x # 100
    /\ movingChildIds # {}
    /\ \A id \in movingChildIds :
          /\ id \in InsideOf(state.items, activeItemId)
          /\ ItemById(state.items, id).x = ItemById(state.items, activeItemId).x
    /\ \E id \in InsideOf(state.items, activeItemId) \ movingChildIds :
          ItemById(state.items, id).x # 100

----------------------------------------------------------------------------
(* SpecResize: items resized by dragging the handle of the selected item      *)
(* along the diagonal, towards the origin and away from it.                   *)

ResizeItems == 2

ResizeEvents == {Event(<<0, 0>>, 0), Event(<<100, 100>>, 0), Event(<<200, 200>>, 0)}

NextResize ==
    \/ HandleCreateProject
    \/ \E t \in AddTypes : nextId < ResizeItems /\ ToolbarAdd(t)
    \/ \E e \in ResizeEvents, id \in 1..ResizeItems :
          dragMode = "none" /\ HandleItemMouseDown(e, id, "resize")
    \/ \E e \in ResizeEvents : MoveResize(e)
    \/ \E e \in ResizeEvents : HandleMouseUp(e)

SpecResize == Init /\ [][NextResize]_vars

(* C4: after every pointer-move step of a resize gesture the resized item is
   at least MinSize (50) wide and at least MinSize high. *)
ResizeFloor ==
    [][\A e \in ResizeEvents :
          MoveResize(e) =>
              \A k \in 1..Len(state'.items) :
                  state'.items[k].id = activeItemId =>
                      /\ state'.items[k].width >= MinSize
                      /\ state'.items[k].height >= MinSize]_vars

(* in the middle of a resize, a shape that addItem made 200 by 200 stands at
   the floor in both directions: the steps so far asked for 0 or less *)
ResizeFloorWitness ==
    /\ dragMode = "resize"
    /\ \E k \in 1..Len(state.items) :
          /\ state.items[k].id = activeItemId
          /\ state.items[k].type = "shape"
          /\ state.items[k].width = MinSize
          /\ state.items[k].height = MinSize
    /\ dragStart = Pos(0, 0)

----------------------------------------------------------------------------
(* SpecPersist: one project that is edited, saved, left and opened again,    *)
(* with rubber-band selections and pans on the canvas.  (400, 100) is empty  *)
(* canvas as long as the canvas is not panned; the second event there is a   *)
(* press of the middle button.                                               *)

PersistItems == 1

PersistEvents ==
    {Event(<<200, 200>>, 0), Event(<<400, 100>>, 0), Event(<<400, 100>>, 1)}

NextPersist ==
    \/ HandleCreateProject
    \/ \E t \in AddTypes : nextId < PersistItems /\ ToolbarAdd(t)
    \/ \E e \in PersistEvents : DownSelect(e)
    \/ \E e \in PersistEvents : DownPan(e)
    \/ \E e \in PersistEvents : MoveSelect(e)
    \/ \E e \in PersistEvents : MovePan(e)
    \/ \E e \in PersistEvents : HandleMouseUp(e)
    \/ HandleSaveProject
    \/ HandleExportProject
    \/ GoHome
    \/ \E id \in 1..MaxProjects : HandleOpenProject(id)

SpecPersist == Init /\ [][NextPersist]_vars

(* C7: whenever the gesture machine is idle, there is no drag anchor, no
   active item id, no temporary connection point, no selection rectangle and
   no recorded child. *)
IdleIsClean ==
    dragMode = "none" =>
        /\ dragStart = Null
        /\ activeItemId = NoId
        /\ tempConnection = Null
        /\ movingChildIds = {}
        /\ state.selectionBox = Null

(* C9: the selection rectangle of the document is non-null only while the
   gesture machine is selecting. *)
SelectionBoxOnlyWhileSelecting ==
    state.selectionBox # Null => dragMode = "select"

(* C10: every document handed to storage has a null selectionBox. *)
SavedSelectionBoxEmpty ==
    \A p \in 1..MaxProjects :
        storage[p] # Null => storage[p].selectionBox = Null

----------------------------------------------------------------------------
(* SpecGesture: the gesture machine with every tool and every kind of drag,  *)
(* one pointer, one button pressed at a time, on a shape and a pen drawing.  *)
(* The pointer stays on one horizontal line, and the canvas and the items    *)
(* stay within Reach of where they start.                                    *)

GestureItems == 2
GestureConns == 1
Reach == 100

GestureEvents == {Event(<<200, 100>>, 0), Event(<<300, 100>>, 0)}

InReach ==
    /\ state.pan.x \in 0..Reach /\ state.pan.y = 0
    /\ Len(state.connections) <= GestureConns
    /\ \A k \in 1..Len(state.items) :
          /\ state.items[k].x \in 100..(100 + Reach)
          /\ state.items[k].width <= 200 + Reach

NextGesture ==
    \/ HandleCreateProject
    \/ nextId < GestureItems /\ dragMode = "none" /\ ToolbarAdd("shape")
    \/ \E t \in {"select", "hand"} : dragMode = "none" /\ SetToolMode(t)
    \/ dragMode = "none" /\ TogglePen
    \/ \E e \in GestureEvents :
          dragMode = "none" /\ nextId < GestureItems /\ DownPen(e) /\ InReach'
    \/ \E e \in GestureEvents : dragMode = "none" /\ DownPan(e)
    \/ \E e \in GestureEvents : dragMode = "none" /\ DownSelect(e)
    \/ \E e \in GestureEvents, id \in 1..GestureItems, t \in {"move", "resize", "connect"} :
          dragMode = "none" /\ HandleItemMouseDown(e, id, t)
    \/ \E e \in GestureEvents : MoveDraw(e) /\ InReach'
    \/ \E e \in GestureEvents : MoveSelect(e)
    \/ \E e \in GestureEvents : MovePan(e) /\ InReach'
    \/ \E e \in GestureEvents : MoveMove(e) /\ InReach'
    \/ \E e \in GestureEvents : MoveResize(e) /\ InReach'
    \/ \E e \in GestureEvents : MoveConnect(e)
    \/ \E e \in GestureEvents : HandleMouseUp(e) /\ InReach'

SpecGesture == Init /\ [][NextGesture]_vars

(* C8: a pointer-up in the pan, move, resize, draw or select mode leaves the
   items, the connections, the selected ids, the pan and the scale as they
   are. *)
PointerUpCommitsNothing ==
    [][\A e \in GestureEvents :
          (HandleMouseUp(e) /\ dragMode \in {"pan", "move", "resize", "draw", "select"}) =>
              /\ state'.items = state.items
              /\ state'.connections = state.connections
              /\ state'.selectedIds = state.selectedIds
              /\ state'.pan = state.pan
              /\ state'.scale = state.scale]_vars

(* idle again after gestures that panned the canvas, drew a stroke of two
   points or more, and moved and resized the shape: what the pointer-moves did
   is all there, and no connection was made *)
PointerUpCommitsNothingWitness ==
    /\ dragMode = "none"
    /\ state.pan.x # 0
    /\ state.connections = <<>>
    /\ Len(state.items) = 2
    /\ \E k \in 1..2 : state.items[k].type = "drawing" /\ Len(state.items[k].points) >= 2
    /\ \E k \in 1..2 : /\ state.items[k].type = "shape"
                       /\ state.items[k].x # 100
                       /\ state.items[k].width # 200

----------------------------------------------------------------------------
(* SpecSelect: rubber-band selection over a text note, a shape and stickers   *)
(* that lie where addItem puts them.  Their boxes start at (100, 75) and     *)
(* their centers are (225, 165), (200, 175) and (150, 125); (0, 0) and       *)
(* (400, 100) are empty canvas.                                              *)

SelectItems == 3

SelectEvents == {Event(<<0, 0>>, 0), Event(<<200, 200>>, 0), Event(<<400, 100>>, 0)}

NextSelect ==
    \/ HandleCreateProject
    \/ \E t \in AddTypes : nextId < SelectItems /\ ToolbarAdd(t)
    \/ nextId < SelectItems /\ OpenStickerPicker
    \/ \E emoji \in Emojis : nextId < SelectItems /\ SelectSticker(emoji)
    \/ \E e \in SelectEvents : DownSelect(e)
    \/ \E e \in SelectEvents : MoveSelect(e)
    \/ \E e \in SelectEvents : HandleMouseUp(e)

SpecSelect == Init /\ [][NextSelect]_vars

(* the rectangle, doubled, between two world points *)
DoubledRect(a, b) ==
    [x1 |-> 2 * (IF a.x <= b.x THEN a.x ELSE b.x),
     x2 |-> 2 * (IF a.x <= b.x THEN b.x ELSE a.x),
     y1 |-> 2 * (IF a.y <= b.y THEN a.y ELSE b.y),
     y2 |-> 2 * (IF a.y <= b.y THEN b.y ELSE a.y)]

(* ids of the items whose center, doubled, lies in the doubled rectangle *)
CenterInside(items, r) ==
    {items[k].id : k \in
        {j \in 1..Len(items) :
            /\ r.x1 <= 2 * items[j].x + items[j].width
            /\ 2 * items[j].x + items[j].width <= r.x2
            /\ r.y1 <= 2 * items[j].y + items[j].height
            /\ 2 * items[j].y + items[j].height <= r.y2}}

(* ids of the items whose box and the doubled rectangle have a point in common *)
Overlapping(items, r) ==
    {items[k].id : k \in
        {j \in 1..Len(items) :
            /\ 2 * items[j].x <= r.x2 /\ r.x1 <= 2 * (items[j].x + items[j].width)
            /\ 2 * items[j].y <= r.y2 /\ r.y1 <= 2 * (items[j].y + items[j].height)}}

(* C11: after every pointer-move step of a select drag the selected ids are,
   each once, exactly the ids of the items whose center (x + width/2,
   y + height/2) lies in the rectangle (bounds included) between the world
   point of the pointer-down and the world point of the pointer, whatever was
   selected before the step. *)
CenterSelection ==
    [][\A e \in SelectEvents :
          MoveSelect(e) =>
              LET here == Pos(((e.clientX - state.pan.x) * 10) \div state.scale,
                              ((e.clientY - state.pan.y) * 10) \div state.scale)
                  r == DoubledRect(dragStart, here)
              IN  /\ Range(state'.selectedIds) = CenterInside(state.items, r)
                  /\ Len(state'.selectedIds) = Cardinality(CenterInside(state.items, r))
                  /\ state'.items = state.items]_vars

(* in the middle of a select drag: the rubber band has selected an item, and
   another item that it touches without holding its center is not selected *)
CenterSelectionWitness ==
    /\ dragMode = "select"
    /\ state.selectionBox # Null
    /\ state.selectionBox.start # state.selectionBox.end
    /\ state.selectedIds # <<>>
    /\ LET r == DoubledRect(state.selectionBox.start, state.selectionBox.end)
       IN  /\ Range(state.selectedIds) = CenterInside(state.items, r)
           /\ Overlapping(state.items, r) \ Range(state.selectedIds) # {}

----------------------------------------------------------------------------
(* SpecConnect: connect drags between text notes and shapes that lie where   *)
(* addItem puts them.  (200, 200) is inside every item, (320, 100) inside    *)
(* the text notes only, (400, 100) inside none.                              *)

ConnectItems == 3

ConnectEvents ==
    {Event(<<200, 200>>, 0), Event(<<320, 100>>, 0), Event(<<400, 100>>, 0)}

NextConnect ==
    \/ HandleCreateProject
    \/ \E t \in AddTypes : nextId < ConnectItems /\ ToolbarAdd(t)
    \/ \E e \in ConnectEvents, id \in 1..ConnectItems :
          dragMode = "none" /\ HandleItemMouseDown(e, id, "connect")
    \/ \E e \in ConnectEvents : MoveConnect(e)
    \/ \E e \in ConnectEvents : HandleMouseUp(e)

SpecConnect == Init /\ [][NextConnect]_vars

(* positions in items of the items other than the source whose box holds the
   world point of the pointer event *)
OthersUnder(items, source, e) ==
    LET wx == ((e.clientX - state.pan.x) * 10) \div state.scale
        wy == ((e.clientY - state.pan.y) * 10) \div state.scale
    IN  {k \in 1..Len(items) :
            /\ items[k].id # source
            /\ items[k].x <= wx /\ wx <= items[k].x + items[k].width
            /\ items[k].y <= wy /\ wy <= items[k].y + items[k].height}

ConnectRelease(e) == HandleMouseUp(e) /\ dragMode = "connect" /\ activeItemId # NoId

LastConnection(conns) == conns[Len(conns)]

(* C12: a connect drag released inside the boxes of one or more items other
   than the source appends one connection from the source to the first of
   those items in the order of the document's item list, whatever their
   zIndex. *)
FirstMatchWins ==
    [][\A e \in ConnectEvents :
          ConnectRelease(e) =>
              LET under == OthersUnder(state.items, activeItemId, e)
              IN  under # {} =>
                    /\ Len(state'.connections) = Len(state.connections) + 1
                    /\ LastConnection(state'.connections).fromId = activeItemId
                    /\ \E k \in under :
                          /\ \A j \in under : k <= j
                          /\ LastConnection(state'.connections).toId = state.items[k].id]_vars

(* a connection from the third item to the first, a shape at the bottom of the
   stack, made when the second item, a text note above the shape, was under
   the pointer as well: the only release point inside the shape is inside
   every item *)
FirstMatchWinsWitness ==
    /\ Len(state.items) = 3
    /\ state.items[1].type = "shape" /\ state.items[2].type = "text"
    /\ state.items[2].zIndex > state.items[1].zIndex
    /\ \E c \in 1..Len(state.connections) :
          /\ state.connections[c].fromId = state.items[3].id
          /\ state.connections[c].toId = state.items[1].id

(* C13: a connect drag released over several overlapping items connects to
   the topmost of them: the one with the largest zIndex, the later one at
   equal zIndex. *)
TopmostWins ==
    [][\A e \in ConnectEvents :
          ConnectRelease(e) =>
              LET under == OthersUnder(state.items, activeItemId, e)
              IN  under # {} =>
                    /\ Len(state'.connections) = Len(state.connections) + 1
                    /\ \E k \in under :
                          /\ \A j \in under : j # k => Above(state.items, k, j)
                          /\ LastConnection(state'.connections).toId = state.items[k].id]_vars

(* C14: a connect drag released inside no item other than the source leaves
   the connections and the items as they are, keeps the editor open and ends
   in the idle mode. *)
CancelledConnect ==
    [][\A e \in ConnectEvents :
          (ConnectRelease(e) /\ OthersUnder(state.items, activeItemId, e) = {}) =>
              /\ state'.connections = state.connections
              /\ state'.items = state.items
              /\ dragMode' = "none"
              /\ view' = "editor"]_vars

(* idle, three items and no connection, and the first item is the selection:
   the third add selected the third item, so a connect drag was started on the
   first item after it, and its release connected nothing *)
CancelledConnectWitness ==
    /\ dragMode = "none"
    /\ Len(state.items) = 3
    /\ state.connections = <<>>
    /\ state.selectedIds = <<state.items[1].id>>

(* C15: no connection of the document has the same item at both ends. *)
NoSelfConnection ==
    \A c \in 1..Len(state.connections) :
        state.connections[c].toId # state.connections[c].fromId

(* as many connections as the document may hold, made in both directions
   between the same two items *)
NoSelfConnectionWitness ==
    /\ Len(state.connections) = MaxConns
    /\ \E c, d \in 1..Len(state.connections) :
          /\ state.connections[c].fromId = state.connections[d].toId
          /\ state.connections[c].toId = state.connections[d].fromId

----------------------------------------------------------------------------
(* SpecTools: pointer-downs on the canvas with either button under each of   *)
(* the three tools, from the idle mode, with a text note and pen strokes on   *)
(* the canvas.                                                               *)

ToolItems == 2

ToolEvents ==
    {Event(<<200, 200>>, 0), Event(<<200, 200>>, 1),
     Event(<<400, 100>>, 0), Event(<<400, 100>>, 1)}

NextTools ==
    \/ HandleCreateProject
    \/ nextId < ToolItems /\ dragMode = "none" /\ ToolbarAdd("text")
    \/ \E t \in {"select", "hand"} : dragMode = "none" /\ SetToolMode(t)
    \/ dragMode = "none" /\ TogglePen
    \/ \E e \in ToolEvents : dragMode = "none" /\ nextId < ToolItems /\ DownPen(e)
    \/ \E e \in ToolEvents : dragMode = "none" /\ DownPan(e)
    \/ \E e \in ToolEvents : dragMode = "none" /\ DownSelect(e)
    \/ \E e \in ToolEvents : MoveDraw(e)
    \/ \E e \in ToolEvents : MoveSelect(e)
    \/ \E e \in ToolEvents : MovePan(e)
    \/ \E e \in ToolEvents : HandleMouseUp(e)

SpecTools == Init /\ [][NextTools]_vars

(* C16: from the idle mode, a pointer-down on empty canvas with the hand tool,
   or with the middle button under any tool, puts the machine in the pan
   mode. *)
DownStartsPan ==
    [][\A e \in ToolEvents :
          (/\ HandleMouseDown(e)
           /\ dragMode = "none"
           /\ OnEmptyCanvas(e)
           /\ (toolMode = "hand" \/ e.button = 1)) => dragMode' = "pan"]_vars

----------------------------------------------------------------------------
(* SpecPan: the canvas panned with the hand tool and zoomed with the wheel    *)
(* between scale 1 and scale 2, with connected text notes on it.             *)

PanItems == 2
PanConns == 1

PanEvents == {Event(<<200, 100>>, 0), Event(<<300, 100>>, 0)}

NextPan ==
    \/ HandleCreateProject
    \/ nextId < PanItems /\ dragMode = "none" /\ ToolbarAdd("text")
    \/ \E t \in {"select", "hand"} : dragMode = "none" /\ SetToolMode(t)
    \/ \E e \in PanEvents, f \in ZoomFactors :
          HandleWheel(e, f) /\ state'.scale \in WheelScales
    \/ \E e \in PanEvents, id \in 1..PanItems :
          /\ dragMode = "none" /\ Len(state.connections) < PanConns
          /\ HandleItemMouseDown(e, id, "connect")
    \/ \E e \in PanEvents : dragMode = "none" /\ DownPan(e)
    \/ \E e \in PanEvents : MovePan(e)
    \/ \E e \in PanEvents : HandleMouseUp(e)

SpecPan == Init /\ [][NextPan]_vars

(* C17: every pointer-move step of a pan adds the difference between the
   pointer position and the drag anchor, in screen pixels and undivided, to
   the pan offset, and leaves the scale, the items, the connections and the
   selected ids as they are. *)
PanAddsRawDelta ==
    [][\A e \in PanEvents :
          MovePan(e) =>
              /\ state'.pan.x = state.pan.x + (e.clientX - dragStart.x)
              /\ state'.pan.y = state.pan.y + (e.clientY - dragStart.y)
              /\ state'.scale = state.scale
              /\ state'.items = state.items
              /\ state'.connections = state.connections
              /\ state'.selectedIds = state.selectedIds]_vars

(* in the middle of a pan at scale 2, with items, a connection and a
   selection: the wheel at (200, 100) had put the offset at (-200, -100), and
   the pointer has since gone 100 pixels to the right, to (300, 100) *)
PanAddsRawDeltaWitness ==
    /\ dragMode = "pan"
    /\ dragStart = Pos(300, 100)
    /\ state.scale = 20
    /\ state.pan = Pos(-100, -100)
    /\ Len(state.items) = 2
    /\ state.connections # <<>>
    /\ state.selectedIds # <<>>

----------------------------------------------------------------------------
(* SpecRapidMove: text notes and shapes dragged along a horizontal line at    *)
(* scale 1, the pointer-move events arriving one per render or two between   *)
(* renders.                                                                  *)

RapidItems == 2

RapidEvents == {Event(<<200, 100>>, 0), Event(<<250, 100>>, 0), Event(<<300, 100>>, 0)}

NextRapidMove ==
    \/ HandleCreateProject
    \/ \E t \in AddTypes : nextId < RapidItems /\ ToolbarAdd(t)
    \/ \E e \in RapidEvents, id \in 1..RapidItems :
          dragMode = "none" /\ HandleItemMouseDown(e, id, "move")
    \/ \E e \in RapidEvents : MoveMove(e)
    \/ \E e1, e2 \in RapidEvents : MoveMoveUnrendered(e1, e2)
    \/ \E e \in RapidEvents : HandleMouseUp(e)

SpecRapidMove == Init /\ [][NextRapidMove]_vars

(* C18: while a move drag goes on at an unchanged scale, the grabbed item goes
   where the pointer goes: over every step the item's world position changes
   by the change of the pointer position divided by the scale, so that the
   item is at its pointer-down position plus (latest pointer position -
   pointer-down position) / scale after any number of pointer-move events.
   dragStart holds the pointer-down position at the start of the drag and the
   latest pointer position after every pointer-move. *)
MoveTracksPointer ==
    [][(/\ dragMode = "move" /\ dragMode' = "move"
        /\ activeItemId' = activeItemId
        /\ state'.scale = state.scale
        /\ activeItemId \in ItemIds(state.items)
        /\ activeItemId \in ItemIds(state'.items)) =>
           LET before == ItemById(state.items, activeItemId)
               after == ItemById(state'.items, activeItemId)
           IN  /\ (after.x - before.x) * state.scale = (dragStart'.x - dragStart.x) * 10
               /\ (after.y - before.y) * state.scale = (dragStart'.y - dragStart.y) * 10]_vars

----------------------------------------------------------------------------
(* SpecKeys: Delete and Backspace pressed with the focus on the page, in an  *)
(* input or in a textarea, over connected items selected by rubber band or   *)
(* by a press on them.                                                       *)

KeyItems == 3

KeyEvents == {Event(<<0, 0>>, 0), Event(<<200, 200>>, 0), Event(<<400, 100>>, 0)}

NextKeys ==
    \/ HandleCreateProject
    \/ \E t \in AddTypes : nextId < KeyItems /\ ToolbarAdd(t)
    \/ \E e \in KeyEvents : dragMode = "none" /\ DownSelect(e)
    \/ \E e \in KeyEvents, id \in 1..KeyItems :
          dragMode = "none" /\ HandleItemMouseDown(e, id, "connect")
    \/ \E e \in KeyEvents : MoveSelect(e)
    \/ \E e \in KeyEvents : HandleMouseUp(e)
    \/ \E activeTag \in FocusTags : HandleKeyDown(activeTag)

SpecKeys == Init /\ [][NextKeys]_vars

(* C19: a Delete or Backspace press with the focus in an input or a textarea
   changes no item, no connection and no selected id; with the focus
   elsewhere and a non-empty selection it removes the selected items and the
   connections touching them, keeps the rest in order and empties the
   selection. *)
DeleteKeyFocusGuard ==
    [][\A activeTag \in FocusTags :
          HandleKeyDown(activeTag) =>
              IF activeTag \in {"INPUT", "TEXTAREA"}
              THEN /\ state'.items = state.items
                   /\ state'.connections = state.connections
                   /\ state'.selectedIds = state.selectedIds
              ELSE state.selectedIds # <<>> =>
                      /\ DeletedExactly(Range(state.selectedIds))
                      /\ state'.selectedIds = <<>>]_vars

(* idle with an empty selection and no connection after two adds: the
   key has removed a selected item and one item is left *)
DeleteKeyFocusGuardWitness ==
    /\ dragMode = "none"
    /\ nextId = 3
    /\ Len(state.items) = 1
    /\ state.selectedIds = <<>>
    /\ state.connections = <<>>

----------------------------------------------------------------------------
(* SpecCreate: every way an item comes into the document (toolbar, sticker,  *)
(* pen, AI answer), with deletions in between.                               *)

CreateItems == 3

CreateEvents == {Event(<<200, 200>>, 0), Event(<<400, 100>>, 0)}

NextCreate ==
    \/ HandleCreateProject
    \/ \E t \in AddTypes : nextId < CreateItems /\ dragMode = "none" /\ ToolbarAdd(t)
    \/ dragMode = "none" /\ OpenStickerPicker
    \/ \E emoji \in Emojis : nextId < CreateItems /\ SelectSticker(emoji)
    \/ dragMode = "none" /\ TogglePen
    \/ \E e \in CreateEvents : dragMode = "none" /\ nextId < CreateItems /\ DownPen(e)
    \/ \E e \in CreateEvents : HandleMouseUp(e)
    \/ dragMode = "none" /\ nextId < CreateItems /\ HandleAiGenerate
    \/ \E id \in 1..CreateItems : dragMode = "none" /\ OnDelete(id)

SpecCreate == Init /\ [][NextCreate]_vars

(* C20: every step that appends items gives each of them a zIndex strictly
   greater than the zIndex of every item the document already held, or, for
   a shape, strictly less than all of them. *)
CreatedOnTopOrBelow ==
    [][\A k \in (Len(state.items) + 1)..Len(state'.items) :
          \A j \in 1..Len(state.items) :
              IF state'.items[k].type = "shape"
              THEN state'.items[k].zIndex < state.items[j].zIndex
              ELSE state'.items[k].zIndex > state.items[j].zIndex]_vars

----------------------------------------------------------------------------
(* SpecZoom: wheel zooms about two screen points, up to and past both ends   *)
(* of the clamp, mixed with the zoom buttons.                                *)

ZoomEvents == {Event(<<40, 20>>, 0), Event(<<200, 100>>, 0)}

(* exp(-deltaY * 0.001) as a ratio *)
ZoomRatios == {<<1, 5>>, <<1, 2>>, <<2, 1>>}

NextZoom ==
    \/ HandleCreateProject
    \/ \E e \in ZoomEvents, f \in ZoomRatios : HandleWheel(e, f)
    \/ ZoomIn
    \/ ZoomOut

SpecZoom == Init /\ [][NextZoom]_vars

(* C21: a wheel zoom at screen point p keeps the world point under p:
   (p - newPan) / newScale = (p - oldPan) / oldScale on both axes, also when
   the new scale is the clamped one. *)
ZoomPivot ==
    [][\A e \in ZoomEvents, f \in ZoomRatios :
          HandleWheel(e, f) =>
              /\ (e.clientX - state'.pan.x) * state.scale
                    = (e.clientX - state.pan.x) * state'.scale
              /\ (e.clientY - state'.pan.y) * state.scale
                    = (e.clientY - state.pan.y) * state'.scale]_vars

(* three doublings about (40, 20) from scale 1: the last one is cut at 5 *)
ZoomPivotWitness ==
    /\ state.scale = MaxScale
    /\ state.pan = Pos(-160, -80)

(* C22: the viewport scale stays within [0.1, 5]. *)
ScaleWithinRange == MinScale <= state.scale /\ state.scale <= MaxScale

(* wheel zooms up to the upper end of the clamp, then a press of Zoom Out *)
ScaleWithinRangeWitness ==
    /\ state.scale = MaxScale - 1
    /\ state.pan # Pos(0, 0)

----------------------------------------------------------------------------
(* SpecDraw: freehand strokes from one start point, with moves to the left,  *)
(* upwards, straight down and back onto the start.                           *)

DrawItems == 2

DrawStart == Event(<<200, 200>>, 0)

DrawEvents ==
    {DrawStart, Event(<<190, 205>>, 0), Event(<<205, 180>>, 0), Event(<<200, 210>>, 0)}

NextDraw ==
    \/ HandleCreateProject
    \/ dragMode = "none" /\ TogglePen
    \/ dragMode = "none" /\ nextId < DrawItems /\ DownPen(DrawStart)
    \/ \E e \in DrawEvents : MoveDraw(e)
    \/ \E e \in DrawEvents : HandleMouseUp(e)

SpecDraw == Init /\ [][NextDraw]_vars

(* the item being drawn *)
Stroke(items) == ItemById(items, activeItemId)

(* where the k-th stored point of a drawing lies in the world *)
WorldPoint(item, k) == Pos(item.x + item.points[k].x, item.y + item.points[k].y)

(* C23: after every pointer-move of a drawing gesture the stored points are
   non-negative with minimum x = 0 and minimum y = 0, one point was appended
   in that same step, and every point stored before lies where it lay in the
   world; a stroke through start, start + (-10, 5), start + (5, -20) leaves
   the origin at start + (-10, -20). *)
StrokeOrigin ==
    [][\A e \in DrawEvents :
          MoveDraw(e) =>
              LET before == Stroke(state.items)
                  after == Stroke(state'.items)
                  n == Len(after.points)
              IN  /\ n = Len(before.points) + 1
                  /\ \A k \in 1..n : after.points[k].x >= 0 /\ after.points[k].y >= 0
                  /\ \E k \in 1..n : after.points[k].x = 0
                  /\ \E k \in 1..n : after.points[k].y = 0
                  /\ \A k \in 1..(n - 1) : WorldPoint(after, k) = WorldPoint(before, k)
                  /\ (/\ n = 3
                      /\ WorldPoint(after, 1) = dragStart
                      /\ WorldPoint(after, 2) = Pos(dragStart.x - 10, dragStart.y + 5)
                      /\ WorldPoint(after, 3) = Pos(dragStart.x + 5, dragStart.y - 20))
                     => /\ after.x = dragStart.x - 10
                        /\ after.y = dragStart.y - 20]_vars

(* the stroke (0,0), (-10,5), (5,-20) from (200, 200), still being drawn *)
StrokeOriginWitness ==
    /\ dragMode = "draw"
    /\ dragStart = Pos(200, 200)
    /\ \E k \in 1..Len(state.items) :
          /\ state.items[k].id = activeItemId
          /\ state.items[k].x = 190 /\ state.items[k].y = 180
          /\ state.items[k].points = <<Pos(10, 20), Pos(0, 25), Pos(15, 0)>>

(* C24: after every pointer-move of a drawing gesture the item's width is
   max point x - min point x and its height is max point y - min point y. *)
TightBounds ==
    [][\A e \in DrawEvents :
          MoveDraw(e) =>
              LET after == Stroke(state'.items)
              IN  /\ after.width = MaxOver(after.points, "x", after.points[1].x)
                                   - MinOver(after.points, "x", after.points[1].x)
                  /\ after.height = MaxOver(after.points, "y", after.points[1].y)
                                    - MinOver(after.points, "y", after.points[1].y)]_vars

----------------------------------------------------------------------------
(* Placement of an added item *)

(* C25: a text item added to an empty canvas at scale 1 and pan (0, 0) lies
   at (screenCenter.x - width / 2, screenCenter.y - height / 2): its centre
   is the centre of the viewport. *)
AddedAtCenter ==
    [][(/\ ToolbarAdd("text")
        /\ state.items = <<>>
        /\ state.scale = 10
        /\ state.pan = Pos(0, 0))
       => /\ 2 * state'.items[1].x + state'.items[1].width = InnerWidth
          /\ 2 * state'.items[1].y + state'.items[1].height = InnerHeight]_vars

----------------------------------------------------------------------------
(* Connector paths.  Positions are carried in half units (twice the world    *)
(* coordinate) so that the centre of an odd-sized box is a whole number; a   *)
(* computed point is a fraction [x, y, d] standing for (x / d, y / d).       *)

Frac(p) == [x |-> p.x, y |-> p.y, d |-> 1]

(* let t = Infinity *)
Infinity == [n |-> 1, d |-> 0]

(* a.n / a.d < b.n / b.d, denominators >= 0 *)
LessT(a, b) == a.n * b.d < b.n * a.d

(* only the vertical edges are looked at *)
GetRectIntersectionVertical(center, target, rect) ==
    LET dx == target.x - center.x
        dy == target.y - center.y
    IN  IF dx = 0 THEN Frac(center)
        ELSE [x |-> center.x * Abs(dx) + rect.width * dx,
              y |-> center.y * Abs(dx) + rect.width * dy,
              d |-> Abs(dx)]

(* getRectIntersection(center, target, rect); in half units w is rect.width
   and h is rect.height *)
GetRectIntersection(center, target, rect) ==
    LET dx == target.x - center.x
        dy == target.y - center.y
        w == rect.width
        h == rect.height
        tx == [n |-> w, d |-> Abs(dx)]          \* (dx > 0 ? w : -w) / dx
        ty == [n |-> h, d |-> Abs(dy)]          \* (dy > 0 ? h : -h) / dy
        t1 == IF dx # 0 /\ tx.n * Abs(dy) <= h * tx.d THEN tx ELSE Infinity
        t == IF dy # 0 /\ ty.n * Abs(dx) <= w * ty.d /\ LessT(ty, t1) THEN ty ELSE t1
    IN  IF dx = 0 /\ dy = 0 THEN Frac(center)
        ELSE IF t = Infinity THEN Frac(center)
        ELSE [x |-> center.x * t.d + t.n * dx,
              y |-> center.y * t.d + t.n * dy,
              d |-> t.d]

(* { x: from.x + from.width / 2, y: from.y + from.height / 2 }, in half units *)
CenterOf(item) == Pos(2 * item.x + item.width, 2 * item.y + item.height)

(* getPath(conn): the start and the end of the curve, or none when an end
   of the connection is not in the document *)
GetPath(conn) ==
    IF conn.fromId \notin ItemIds(state.items) \/ conn.toId \notin ItemIds(state.items)
    THEN Null
    ELSE LET from == ItemById(state.items, conn.fromId)
             to == ItemById(state.items, conn.toId)
         IN  [start |-> GetRectIntersection(CenterOf(from), CenterOf(to), from),
              end |-> GetRectIntersection(CenterOf(to), CenterOf(from), to)]

(* SpecPath: two items, stickers or text notes, connected and dragged to     *)
(* places beside, above and diagonally off each other.                       *)

PathItems == 2

PathEvents ==
    {Event(<<150, 100>>, 0), Event(<<350, 25>>, 0), Event(<<50, 25>>, 0),
     Event(<<150, 25>>, 0)}

NextPath ==
    \/ HandleCreateProject
    \/ nextId < PathItems /\ dragMode = "none" /\ ToolbarAdd("text")
    \/ nextId < PathItems /\ dragMode = "none" /\ OpenStickerPicker
    \/ \E emoji \in Emojis : nextId < PathItems /\ SelectSticker(emoji)
    \/ \E e \in PathEvents, id \in 1..PathItems, t \in {"move", "connect"} :
          dragMode = "none" /\ HandleItemMouseDown(e, id, t)
    \/ \E e \in PathEvents : MoveMove(e)
    \/ \E e \in PathEvents : HandleMouseUp(e)

SpecPath == Init /\ [][NextPath]_vars

(* point p lies on the boundary of the box of the given size centred at
   center, on the ray from center towards target *)
OnEdgeTowards(p, center, target, rect) ==
    LET offX == p.x - center.x * p.d
        offY == p.y - center.y * p.d
        dx == target.x - center.x
        dy == target.y - center.y
    IN  /\ p.d > 0
        /\ Abs(offX) <= rect.width * p.d
        /\ Abs(offY) <= rect.height * p.d
        /\ Abs(offX) = rect.width * p.d \/ Abs(offY) = rect.height * p.d
        /\ offX * dy = offY * dx
        /\ offX * dx >= 0 /\ offY * dy >= 0

(* the world point (x, y) as a fraction in half units *)
IsWorldPoint(p, x, y) == p.x = 2 * x * p.d /\ p.y = 2 * y * p.d

IsRect(item, x, y, w, h) ==
    item.x = x /\ item.y = y /\ item.width = w /\ item.height = h

(* C26: for a box of positive width and height the edge intersection is the
   point of the box's boundary on the ray from its centre towards the
   target, and the centre itself when the target is the centre; between
   boxes {0,0,100,100} and {300,0,100,100} the connector runs from (100,50)
   to (300,50). *)
EdgeIntersection ==
    \A k \in 1..Len(state.connections) :
        LET path == GetPath(state.connections[k])
            from == ItemById(state.items, state.connections[k].fromId)
            to == ItemById(state.items, state.connections[k].toId)
        IN  (path # Null /\ from.width > 0 /\ from.height > 0
                         /\ to.width > 0 /\ to.height > 0) =>
            /\ IF CenterOf(from) = CenterOf(to)
               THEN path.start = Frac(CenterOf(from)) /\ path.end = Frac(CenterOf(to))
               ELSE /\ OnEdgeTowards(path.start, CenterOf(from), CenterOf(to), from)
                    /\ OnEdgeTowards(path.end, CenterOf(to), CenterOf(from), to)
            /\ (IsRect(from, 0, 0, 100, 100) /\ IsRect(to, 300, 0, 100, 100)) =>
                  /\ IsWorldPoint(path.start, 100, 50)
                  /\ IsWorldPoint(path.end, 300, 50)

(* two connected stickers dragged to (0, 0) and (300, 0) *)
EdgeIntersectionWitness ==
    /\ dragMode = "none"
    /\ \E k \in 1..Len(state.connections) :
          /\ GetPath(state.connections[k]) # Null
          /\ IsRect(ItemById(state.items, state.connections[k].fromId), 0, 0, 100, 100)
          /\ IsRect(ItemById(state.items, state.connections[k].toId), 300, 0, 100, 100)

----------------------------------------------------------------------------
(* SpecTodo: to-do lists beside a text note; entries are added, ticked and   *)
(* their urgency cycled.                                                     *)

TodoItems == 2

NextTodo ==
    \/ HandleCreateProject
    \/ \E t \in {"text", "todo"} : nextId < TodoItems /\ ToolbarAdd(t)
    \/ \E id \in 1..TodoItems : HandleAddTodo(id)
    \/ \E id \in 1..TodoItems, todoId \in 1..MaxTodos : HandleTodoToggle(id, todoId)
    \/ \E id \in 1..TodoItems, todoId \in 1..MaxTodos : HandleUrgencyToggle(id, todoId)

SpecTodo == Init /\ [][NextTodo]_vars

(* the table of the cycle: low -> medium -> high -> low *)
CycledFrom(u) ==
    CASE u = "low" -> "medium"
      [] u = "medium" -> "high"
      [] u = "high" -> "low"

(* C27: the urgency cycle of a to-do entry maps low to medium, medium to
   high and high to low, three applications give the original urgency back,
   and a cycle step changes the urgency of the entry with the given id and
   nothing else: no other field of that entry, no other entry, no other
   item. *)
UrgencyCycle ==
    [][\A id \in 1..TodoItems, todoId \in 1..MaxTodos :
          HandleUrgencyToggle(id, todoId) =>
              /\ Len(state'.items) = Len(state.items)
              /\ \A k \in 1..Len(state.items) :
                    /\ [state'.items[k] EXCEPT !.todos = <<>>]
                          = [state.items[k] EXCEPT !.todos = <<>>]
                    /\ Len(state'.items[k].todos) = Len(state.items[k].todos)
                    /\ \A j \in 1..Len(state.items[k].todos) :
                          LET old == state.items[k].todos[j]
                              new == state'.items[k].todos[j]
                          IN  IF state.items[k].id = id /\ old.id = todoId
                              THEN /\ new = [old EXCEPT !.urgency = CycledFrom(old.urgency)]
                                   /\ NextUrgency(NextUrgency(new.urgency)) = old.urgency
                              ELSE new = old
              /\ state'.connections = state.connections
              /\ state'.selectedIds = state.selectedIds]_vars

(* a list whose first entry, ticked, has gone from high to low and whose
   added third entry has gone from low to high *)
UrgencyCycleWitness ==
    \E k \in 1..Len(state.items) :
        /\ Len(state.items[k].todos) = 3
        /\ state.items[k].todos[1] = Todo(1, "Define goals", TRUE, "low")
        /\ state.items[k].todos[2] = Todo(2, "Gather inspiration", FALSE, "low")
        /\ state.items[k].todos[3] = Todo(3, "New Task", FALSE, "high")

----------------------------------------------------------------------------
(* SpecLoad: one project, saved and left, opened again through either        *)
(* provider after its document or its catalog entry may have been lost.      *)

LoadItems == 2

NextLoad ==
    \/ currentProject = NoId /\ HandleCreateProject
    \/ nextId < LoadItems /\ ToolbarAdd("text")
    \/ \E id \in 1..LoadItems : OnDelete(id)
    \/ HandleSaveProject
    \/ GoHome
    \/ \E provider \in Providers, id \in 1..MaxProjects : OpenProject(provider, id)
    \/ \E id \in 1..MaxProjects : CatalogEntryLost(id)
    \/ \E id \in 1..MaxProjects : DocumentLost(id)

SpecLoad == Init /\ [][NextLoad]_vars

(* the load of project id cannot succeed with this provider *)
LoadFails(provider, id) ==
    \/ storage[id] = Null
    \/ provider = "electron" /\ id \notin recents

(* C28: an attempt to open a project whose load fails leaves the board
   document, the current project and the view as they were. *)
FailedOpenKeepsState ==
    [][\A provider \in Providers, id \in 1..MaxProjects :
          (OpenProject(provider, id) /\ LoadFails(provider, id)) =>
              /\ state' = state
              /\ currentProject' = currentProject
              /\ view' = view]_vars

(* on the home screen with a board still in memory, the project listed and
   its document gone: opening it fails *)
FailedOpenKeepsStateWitness ==
    /\ view = "home"
    /\ currentProject = 1
    /\ Len(state.items) = 2
    /\ recents = {1}
    /\ storage[1] = Null

(* C29: with either provider, loading a project whose document is stored
   and whose catalog entry is missing gives the stored document and
   placeholder metadata carrying the project's id. *)
RecoveredLoad ==
    \A provider \in Providers, id \in 1..MaxProjects :
        (storage[id] # Null /\ id \notin recents) =>
            LET result == LoadProject(provider, id)
            IN  /\ result # Thrown
                /\ result.state = storage[id]
                /\ result.metadata.id = id

----------------------------------------------------------------------------
(* SpecAi: requests for ideas that are answered or fail, while a note is     *)
(* added, selected and connect gestures from it run during the wait.         *)

AiItems == 6

AiEvents == {Event(<<200, 200>>, 0), Event(<<400, 100>>, 0)}

(* answers of the model that parse *)
AiAnswers == {Answer(<<"Calm">>)}

(* one random offset per idea; here all ideas of one answer share theirs *)
AiOffsetsFor(n) == {[k \in 1..n |-> <<off, 0>>] : off \in AiOffsets}

NextAi ==
    \/ HandleCreateProject
    \/ nextId < 1 /\ dragMode = "none" /\ ToolbarAdd("text")
    \/ \E e \in AiEvents : dragMode = "none" /\ DownSelect(e)
    \/ \E e \in AiEvents :
          dragMode = "none" /\ HandleItemMouseDown(e, 1, "connect")
    \/ \E e \in AiEvents : HandleMouseUp(e)
    \/ AiIdeasRequest
    \/ \E answer \in AiAnswers \cup {Failed}, n \in 0..Len(FallbackIdeas) :
          \E offs \in AiOffsetsFor(n) :
              AiIdeasAnswer(answer, offs) /\ nextId' <= AiItems

SpecAi == Init /\ [][NextAi]_vars

(* C30: when the request for ideas fails, generateIdeas gives the fallback
   list, and the rest of handleAiGenerate appends one text item per snippet
   of that list, in order, leaves every existing item, every connection, the
   selection and the gesture state as they are, and clears the loading
   flag. *)
AiFallback ==
    [][\A n \in 0..Len(FallbackIdeas) : \A offs \in AiOffsetsFor(n) :
          AiIdeasAnswer(Failed, offs) =>
              LET snippets == <<"Inspiration", "Creativity", "Focus", "Design", "Light">>
                  old == Len(state.items)
              IN  /\ Len(state'.items) = old + 5
                  /\ \A k \in 1..old : state'.items[k] = state.items[k]
                  /\ \A k \in 1..5 :
                        /\ state'.items[old + k].type = "text"
                        /\ state'.items[old + k].content = snippets[k]
                  /\ state'.connections = state.connections
                  /\ state'.selectedIds = state.selectedIds
                  /\ UNCHANGED gestureVars
                  /\ ~isAiLoading']_vars

(* the five fallback notes behind a note that was there before, while a
   connect gesture from that note is still running *)
AiFallbackWitness ==
    /\ ~isAiLoading
    /\ dragMode = "connect"
    /\ activeItemId = 1
    /\ Len(state.items) = 6
    /\ state.items[1].content = ""
    /\ state.items[2].content = "Inspiration"
    /\ state.items[6].content = "Light"

----------------------------------------------------------------------------
(* Strokes after their gesture *)

(* the drawing with this id is still being drawn *)
BeingDrawn(id) == dragMode = "draw" /\ activeItemId = id

(* C31: once the gesture that drew a freehand item is over, no step changes
   the item's stroke points: as long as the item is in the document its
   points are the same after the step as before, whatever else the step
   moves, resizes, adds or selects. *)
StrokeFrozen ==
    [][\A k \in 1..Len(state.items) :
          (state.items[k].type = "drawing" /\ ~BeingDrawn(state.items[k].id)) =>
              \A j \in 1..Len(state'.items) :
                  state'.items[j].id = state.items[k].id =>
                      state'.items[j].points = state.items[k].points]_vars

(* a stroke drawn from right to left whose item is being resized: the box
   is no longer the one the stroke left, the two points are *)
StrokeFrozenWitness ==
    /\ dragMode = "resize"
    /\ \E k \in 1..Len(state.items) :
          /\ state.items[k].id = activeItemId
          /\ state.items[k].type = "drawing"
          /\ state.items[k].points = <<Pos(100, 0), Pos(0, 0)>>
          /\ state.items[k].height > 1

----------------------------------------------------------------------------
(* Screen and world coordinates as exact fractions [n, d], standing for      *)
(* n / d; the scale is carried in tenths.                                    *)

Whole(c) == [n |-> c, d |-> 1]

EqQ(a, b) == a.n * b.d = b.n * a.d

(* a transform that translates before it scales *)
WorldToScreenPanFirst(w, pan, scale) ==
    [n |-> (w.n + pan * w.d) * scale, d |-> w.d * 10]

(* transform: translate(pan) scale(scale), origin top left: w * scale + pan *)
WorldToScreen(w, pan, scale) ==
    [n |-> w.n * scale + pan * w.d * 10, d |-> w.d * 10]

(* (e.clientX - state.pan.x) / state.scale, without rounding *)
ScreenToWorldQ(p, pan, scale) ==
    [n |-> (p.n - pan * p.d) * 10, d |-> p.d * scale]

(* coordinates the round trips are tried on *)
TripCoords == {-30, 0, 20, 40, 200}

(* C32: in every viewport, a screen coordinate taken to the world by
   (p - pan) / scale and back by w * scale + pan is the coordinate it was,
   and a world coordinate taken to the screen and back is the coordinate it
   was, on both axes. *)
RoundTrip ==
    \A c \in TripCoords : \A pan \in {state.pan.x, state.pan.y} :
        /\ state.scale > 0
        /\ EqQ(WorldToScreen(ScreenToWorldQ(Whole(c), pan, state.scale),
                             pan, state.scale), Whole(c))
        /\ EqQ(ScreenToWorldQ(WorldToScreen(Whole(c), pan, state.scale),
                              pan, state.scale), Whole(c))

(* a viewport zoomed about (40, 20) and then stepped to scale 0.3, in which
   the screen point 40 falls between whole world coordinates *)
RoundTripWitness ==
    /\ state.scale = 3
    /\ state.pan # Pos(0, 0)
    /\ ((40 - state.pan.x) * 10) % state.scale # 0

----------------------------------------------------------------------------
(* Document invariants *)

(* C34: in every state reached by adds, per-item deletes, keyboard deletes
   and gestures, every id of selectedIds is the id of an item of the
   document. *)
SelectionExists == Range(state.selectedIds) \subseteq ItemIds(state.items)

(* C35: every item of the document has width > 0 and height > 0, also right
   after the pen pointer-down that creates a drawing and after each drawing
   step. *)
PositiveSize ==
    \A k \in 1..Len(state.items) :
        state.items[k].width > 0 /\ state.items[k].height > 0

(* C36: the document never holds two connections with the same fromId and
   the same toId. *)
NoDuplicateConnection ==
    \A j, k \in 1..Len(state.connections) :
        (/\ state.connections[j].fromId = state.connections[k].fromId
         /\ state.connections[j].toId = state.connections[k].toId) => j = k

(* C37: at every scale the wheel can reach, the Zoom In button does not
   lower the scale and the Zoom Out button does not raise it. *)
ZoomButtonsMonotone ==
    [][/\ ZoomIn => state'.scale >= state.scale
       /\ ZoomOut => state'.scale <= state.scale]_vars

----------------------------------------------------------------------------
(* Electron main process: the recents file and the project folders.  Each   *)
(* handler is split at the awaits between which it reads or writes the      *)
(* recents file or a project folder; ipc[c] holds what the invocation in    *)
(* slot c keeps between two steps: its position, the list it read and the   *)
(* project it works on.                                                     *)

RecentsCap == 50         \* if (recents.length > 50) recents = recents.slice(0, 50)
CatalogProjects == 51    \* uuids handed out in the catalog specification
CatalogImports == 2      \* of which the first ones may be imports
RaceProjects == 2        \* uuids handed out in the interleaving specification

Uids == {"u1"}           \* signed-in users
Anonymous == "anonymous"

(* path.join(getUserProjectsDir(uid), folderName) *)
ProjectPath(uid, id) == <<uid, id>>

ProjectMetadata(id, uid) == [id |-> id, uid |-> uid, path |-> ProjectPath(uid, id)]

(* ipcRenderer.invoke(channel, arg), as the handler starts on it *)
Call(op, user, arg) ==
    [op |-> op, user |-> user, arg |-> arg, pc |-> "start", recents |-> <<>>,
     project |-> Null]

Quiescent == \A c \in Calls : ipc[c] = Null

(* recents.find(r => r.id === id), Null when there is none *)
Find(list, id) ==
    LET at == {k \in 1..Len(list) : list[k].id = id}
    IN  IF at = {} THEN Null
        ELSE list[CHOOSE k \in at : \A j \in at : k <= j]

(* recents.filter(r => r.id !== id) *)
Without(list, id) ==
    LET Other(r) == r.id # id IN SelectSeq(list, Other)

(* an update that puts the entry on top of the list as it is *)
UpdatedRecentsKeepingOld(list, metadata) ==
    LET added == <<metadata>> \o list
    IN  IF Len(added) > RecentsCap THEN SubSeq(added, 1, RecentsCap) ELSE added

(* updateRecentsList between its read and its write *)
UpdatedRecents(list, metadata) ==
    LET added == <<metadata>> \o Without(list, metadata.id)
    IN  IF Len(added) > RecentsCap THEN SubSeq(added, 1, RecentsCap) ELSE added

(* project:list-recent: the entries whose folder exists *)
Existing(list, dirs) ==
    LET OnDisk(r) == r.path \in dirs IN SelectSeq(list, OnDisk)

(* project:list-recent: its return value; payload is Null when no uid is
   passed *)
ListRecent(list, dirs, payload) ==
    LET Mine(r) == r.uid = payload.uid
    IN  IF payload = Null THEN Existing(list, dirs)
        ELSE SelectSeq(Existing(list, dirs), Mine)

(* everything outside the main process *)
appVars == <<state, gestureVars, view, currentProject, storage, recents, aiCall,
             toolMode, emojiPicker, nextId>>

(* preload.ts: what each window.moodboard call sends for the signed-in user *)
Payload(op, user, id) ==
    CASE op = "create" -> [uid |-> user]
      [] op = "import" -> Null
      [] op = "list" -> [uid |-> user]
      [] OTHER -> [id |-> id]

(* window.moodboard.<op>(...) called by the renderer *)
Invoke(c, op, user, id) ==
    /\ ipc[c] = Null
    /\ ipc' = [ipc EXCEPT ![c] = Call(op, user, Payload(op, user, id))]
    /\ UNCHANGED <<recentsFile, folders, uuids, appVars>>

(* project:create up to its updateRecentsList, project:import likewise:
   a new id, the project folder with its project.json, the metadata.
   picked is whether the open dialog of an import returned a file. *)
MakeProject(c, picked) ==
    /\ ipc[c] # Null
    /\ ipc[c].pc = "start"
    /\ ipc[c].op \in {"create", "import"}
    /\ ipc[c].op = "create" => picked
    /\ IF picked
       THEN LET uid == IF ipc[c].arg = Null THEN Anonymous ELSE ipc[c].arg.uid
                metadata == ProjectMetadata(uuids + 1, uid)
            IN  /\ folders' = folders \cup {metadata.path}
                /\ uuids' = uuids + 1
                /\ ipc' = [ipc EXCEPT ![c].project = metadata, ![c].pc = "read"]
       ELSE /\ ipc' = [ipc EXCEPT ![c] = Null]
            /\ UNCHANGED <<folders, uuids>>
    /\ UNCHANGED <<recentsFile, appVars>>

(* project:save and project:load: getRecents and find; throws when the id is
   not in the list *)
FindProject(c) ==
    /\ ipc[c] # Null
    /\ ipc[c].pc = "start"
    /\ ipc[c].op \in {"save", "load"}
    /\ LET project == Find(recentsFile, ipc[c].arg.id)
       IN  ipc' = IF project = Null THEN [ipc EXCEPT ![c] = Null]
                  ELSE [ipc EXCEPT ![c].project = project, ![c].pc = "document"]
    /\ UNCHANGED <<recentsFile, folders, uuids, appVars>>

(* project:save writes project.json, project:load reads it: both throw when
   the folder is gone *)
TouchDocument(c) ==
    /\ ipc[c] # Null
    /\ ipc[c].pc = "document"
    /\ ipc' = IF ipc[c].project.path \in folders
              THEN [ipc EXCEPT ![c].pc = "read"]
              ELSE [ipc EXCEPT ![c] = Null]
    /\ UNCHANGED <<recentsFile, folders, uuids, appVars>>

(* updateRecentsList: let recents = await getRecents() *)
GetRecents(c) ==
    /\ ipc[c] # Null
    /\ ipc[c].pc = "read"
    /\ ipc' = [ipc EXCEPT ![c].recents = recentsFile, ![c].pc = "write"]
    /\ UNCHANGED <<recentsFile, folders, uuids, appVars>>

(* updateRecentsList: filter, unshift, slice, await saveRecents(recents); the
   handler returns *)
UpdateRecentsList(c) ==
    /\ ipc[c] # Null
    /\ ipc[c].pc = "write"
    /\ ipc[c].op \in {"create", "import", "save", "load"}
    /\ recentsFile' = UpdatedRecents(ipc[c].recents, ipc[c].project)
    /\ ipc' = [ipc EXCEPT ![c] = Null]
    /\ UNCHANGED <<folders, uuids, appVars>>

(* project:delete: getRecents and find *)
DeleteFind(c) ==
    /\ ipc[c] # Null
    /\ ipc[c].pc = "start"
    /\ ipc[c].op = "delete"
    /\ LET project == Find(recentsFile, ipc[c].arg.id)
       IN  ipc' = [ipc EXCEPT ![c].recents = recentsFile,
                              ![c].project = project,
                              ![c].pc = IF project = Null THEN "write" ELSE "remove"]
    /\ UNCHANGED <<recentsFile, folders, uuids, appVars>>

(* project:delete: await fs.rm(project.path, { recursive: true, force: true }) *)
DeleteFolder(c) ==
    /\ ipc[c] # Null
    /\ ipc[c].pc = "remove"
    /\ folders' = folders \ {ipc[c].project.path}
    /\ ipc' = [ipc EXCEPT ![c].pc = "write"]
    /\ UNCHANGED <<recentsFile, uuids, appVars>>

(* project:delete: recents.filter(r => r.id !== id), await saveRecents(recents) *)
DeleteWrite(c) ==
    /\ ipc[c] # Null
    /\ ipc[c].pc = "write"
    /\ ipc[c].op = "delete"
    /\ recentsFile' = Without(ipc[c].recents, ipc[c].arg.id)
    /\ ipc' = [ipc EXCEPT ![c] = Null]
    /\ UNCHANGED <<folders, uuids, appVars>>

(* project:list-recent: getRecents, the existsSync filter; returns
   ListRecent(...) when every entry exists *)
ListRead(c) ==
    /\ ipc[c] # Null
    /\ ipc[c].pc = "start"
    /\ ipc[c].op = "list"
    /\ LET existingRecents == Existing(recentsFile, folders)
       IN  ipc' = IF Len(existingRecents) = Len(recentsFile)
                  THEN [ipc EXCEPT ![c] = Null]
                  ELSE [ipc EXCEPT ![c].recents = existingRecents,
                                   ![c].pc = "rewrite"]
    /\ UNCHANGED <<recentsFile, folders, uuids, appVars>>

(* project:list-recent: await saveRecents(existingRecents), then returns *)
ListWrite(c) ==
    /\ ipc[c] # Null
    /\ ipc[c].pc = "rewrite"
    /\ recentsFile' = ipc[c].recents
    /\ ipc' = [ipc EXCEPT ![c] = Null]
    /\ UNCHANGED <<folders, uuids, appVars>>

(* the steps every invocation in flight can take *)
HandlerStep(c) ==
    \/ MakeProject(c, TRUE)
    \/ FindProject(c)
    \/ TouchDocument(c)
    \/ GetRecents(c)
    \/ UpdateRecentsList(c)
    \/ DeleteFind(c)
    \/ DeleteFolder(c)
    \/ DeleteWrite(c)

(* Catalog: one invocation at a time, each started when the one before has
   returned; save, load and delete work on the first project, once it was
   made. *)
CatalogIds == {1}

NextCatalog ==
    \/ \E u \in Uids :
          Quiescent /\ uuids < CatalogProjects /\ Invoke(1, "create", u, NoId)
    \/ \E u \in Uids :
          Quiescent /\ uuids < CatalogImports /\ Invoke(1, "import", u, NoId)
    \/ \E u \in Uids, id \in CatalogIds, op \in {"save", "load", "delete"} :
          Quiescent /\ id <= uuids /\ Invoke(1, op, u, id)
    \/ MakeProject(1, FALSE)
    \/ HandlerStep(1)

SpecCatalog == Init /\ [][NextCatalog]_vars

NoDuplicateIds(list) ==
    \A j, k \in 1..Len(list) : list[j].id = list[k].id => j = k

(* C33: with the Electron operations run one after another, the recents file
   never holds two entries with the same id nor more than 50 entries, and
   when a create, save, load or import returns, its project is the first
   entry. *)
RecentsKept ==
    [][/\ NoDuplicateIds(recentsFile')
       /\ Len(recentsFile') <= RecentsCap
       /\ \A c \in Calls :
             UpdateRecentsList(c) => recentsFile'[1].id = ipc[c].project.id]_vars

(* the list is full, its oldest entry was dropped for project 51 and the
   first project, saved or loaded since, is second *)
RecentsKeptWitness ==
    /\ Quiescent
    /\ Len(recentsFile) = RecentsCap
    /\ recentsFile[1].id = RecentsCap + 1
    /\ recentsFile[2].id = 1

(* project:save or project:load throws "Project not found" in this step *)
NotFound(c) == FindProject(c) /\ Find(recentsFile, ipc[c].arg.id) = Null

(* the folder of a project made by project:create for a signed-in user *)
CreatedFolder(id) == \E u \in Uids : ProjectPath(u, id) \in folders

(* C38: a project made by project:create whose folder was not deleted can be
   saved and loaded after any later creates, saves, loads and imports:
   neither handler throws "Project not found" for it. *)
CreatedStaysFound ==
    [][\A c \in Calls : NotFound(c) => ~CreatedFolder(ipc[c].arg.id)]_vars

(* C40: when an import started by the signed-in user U returns, the list
   project:list-recent returns for U holds the imported project. *)
ImportListed ==
    [][\A c \in Calls :
          (UpdateRecentsList(c) /\ ipc[c].op = "import") =>
              LET listed == ListRecent(recentsFile', folders',
                                       Payload("list", ipc[c].user, NoId))
              IN  \E k \in 1..Len(listed) : listed[k].id = ipc[c].project.id]_vars

----------------------------------------------------------------------------
(* Interleaving: two invocations in flight, their steps in any order.  The  *)
(* renderer saves, loads and deletes a project whose id it has: one that a  *)
(* create has returned.                                                     *)

NextRace ==
    \/ \E c \in Calls, u \in Uids :
          uuids < RaceProjects /\ Invoke(c, "create", u, NoId)
    \/ \E c \in Calls, u \in Uids, id \in CatalogIds,
          op \in {"save", "load", "delete"} :
          /\ id <= uuids
          /\ \A d \in Calls :
                IF ipc[d] = Null THEN TRUE
                ELSE IF ipc[d].project = Null THEN TRUE
                ELSE ipc[d].op = "create" => ipc[d].project.id # id
          /\ Invoke(c, op, u, id)
    \/ \E c \in Calls, u \in Uids : Invoke(c, "list", u, NoId)
    \/ \E c \in Calls : HandlerStep(c)
    \/ \E c \in Calls : ListRead(c)
    \/ \E c \in Calls : ListWrite(c)

SpecRace == Init /\ [][NextRace]_vars

(* C39: when the handlers in flight have all returned, the recents file
   holds the updates of each of them: an entry for every project folder that
   was made and not deleted (no added entry is lost) and no entry for a
   folder that was deleted (no removed entry is back). *)
RaceReflected ==
    Quiescent => {recentsFile[k].path : k \in 1..Len(recentsFile)} = folders

====
